---------------------------- MODULE Spec2Model ----------------------------
(***************************************************************************)
(* A model of the ndarray-npy fork with the streaming writer:              *)
(*   src/src/npy/header.rs  - the header codec (Version, Header)           *)
(*   src/src/npy/mod.rs     - the element codec, write_npy / read_npy      *)
(*   src/src/npy/stream.rs  - NpyOutStreamBuilder / NpyOutStream           *)
(*   src/src/npy/error.rs   - the error enums                              *)
(*                                                                         *)
(* Specifications:                                                         *)
(*   Spec        the life of one streaming writer (builder, stream, drop)  *)
(***************************************************************************)
EXTENDS Integers, Sequences, FiniteSets, TLC

VARIABLES
    pc,        \* where the owner of the builder/stream is: "Building", "Open", "Ended", "Idle"
    env,       \* the instantiation [T: element type, target_endian] and the
               \* caller's buffer: its elements [elems] and its bytes [memory]
    builder,   \* NpyOutStreamBuilder.header: [type_descriptor, fortran_order, shape]
    stream,    \* NpyOutStream: [tot_elems, written_elems, closed]
    file,      \* the destination: [created, headers, data]
    call,      \* the last call made: [op, len]
    ret,       \* what the last call returned: [ok, val, err]
    stderr,    \* the diagnostics printed so far (drop's eprintln!)
    accepted,  \* history: the sum of the lengths of the chunks write_slice accepted
    io_faults, \* how many I/O failures the destination has produced
    asked,     \* history: the argument of the last shape setter, and the last of f() and c()
               \* called ("c" if none was)
    fmt,       \* one run of Header::to_bytes: [stage, arr_format, out]
    rd,        \* one run of ReadableElement::read_to_end_exact_vec
    npy,       \* one run of write_npy followed by read_npy
    hread      \* one run of Header::from_py_value or Header::from_reader

streamVars == <<pc, env, builder, stream, file, call, ret, stderr, accepted, io_faults, asked>>
codecVars == <<fmt, rd, npy, hread>>
vars == <<streamVars, codecVars>>

(***************************************************************************)
(* Bounds of the model.                                                    *)
(***************************************************************************)
MaxDim == 3        \* the small dimension sizes are 0..MaxDim
MaxChunk == 5      \* write_slice is called with chunks of 0..MaxChunk elements
MaxIoFaults == 1   \* the destination fails at most this many times
MaxWritten == 7    \* write_slice is not called again once this many elements are written

(***************************************************************************)
(* usize.  The machine word is modelled UsizeBits wide.  Arithmetic that   *)
(* overflows it wraps modulo UsizeRange (a build without overflow checks)  *)
(* or panics (a build with them): either outcome is possible.              *)
(***************************************************************************)
UsizeBits == 8
UsizeRange == 2 ^ UsizeBits
HugeDim == UsizeRange \div 2   \* a dimension so large that doubling it overflows usize

(***************************************************************************)
(* py_literal::Value, as far as headers use it.  A value is a record       *)
(* [kind, v]; the text of a String is a sequence of one-character strings. *)
(***************************************************************************)
PyString(s) == [kind |-> "String", v |-> s]
PyBoolean(b) == [kind |-> "Boolean", v |-> b]
PyInteger(i) == [kind |-> "Integer", v |-> i]
PyTuple(items) == [kind |-> "Tuple", v |-> items]
PyDict(pairs) == [kind |-> "Dict", v |-> pairs]

(***************************************************************************)
(* Bytes and text.  A byte is a number 0..255; a text is a sequence of     *)
(* one-character strings; Printable lists the ASCII characters 32..126     *)
(* (the grave accent, 96, by name).                                        *)
(***************************************************************************)
Printable ==
    <<
      " ", "!", "\"", "#", "$", "%", "&", "'", "(", ")", "*", "+", ",", "-", ".", "/",
      "0", "1", "2", "3", "4", "5", "6", "7", "8", "9", ":", ";", "<", "=", ">", "?",
      "@", "A", "B", "C", "D", "E", "F", "G", "H", "I", "J", "K", "L", "M", "N", "O",
      "P", "Q", "R", "S", "T", "U", "V", "W", "X", "Y", "Z", "[", "\\", "]", "^", "_",
      "grave", "a", "b", "c", "d", "e", "f", "g", "h", "i", "j", "k", "l", "m", "n", "o",
      "p", "q", "r", "s", "t", "u", "v", "w", "x", "y", "z", "{", "|", "}", "~" >>

Ord(ch) == 31 + (CHOOSE i \in 1 .. Len(Printable) : Printable[i] = ch)
Chr(b) == Printable[b - 31]
IsPrintable(b) == b >= 32 /\ b <= 126
Bytes(text) == [i \in 1 .. Len(text) |-> Ord(text[i])]
Text(bytes) == [i \in 1 .. Len(bytes) |-> Chr(bytes[i])]

Space == 32      \* b' '
Newline == 10    \* b'\n'

(***************************************************************************)
(* usize of the header codec: the 64-bit word, kept as its 8 little-endian *)
(* bytes, so that the capacities of the u16 and u32 length fields are the  *)
(* code's own.                                                             *)
(***************************************************************************)
UsizeBytes == 8

RECURSIVE NatToLimbs(_, _)
NatToLimbs(n, k) == IF k = 0 THEN <<>> ELSE <<n % 256>> \o NatToLimbs(n \div 256, k - 1)
\* a number below 2^31 as a usize
U(n) == NatToLimbs(n, UsizeBytes)

RECURSIVE LimbsToNat(_)
LimbsToNat(a) == IF a = <<>> THEN 0 ELSE Head(a) + 256 * LimbsToNat(Tail(a))
\* whether a usize is small enough to be a number of the model
IsSmall(a) == \A i \in 4 .. Len(a) : a[i] = 0
\* the number a small usize stands for
N(a) == LimbsToNat(SubSeq(a, 1, 3))

RECURSIVE AddLimbs(_, _, _)
AddLimbs(a, b, carry) ==
    IF a = <<>> THEN <<carry>>
    ELSE LET t == Head(a) + Head(b) + carry
         IN <<t % 256>> \o AddLimbs(Tail(a), Tail(b), t \div 256)
\* usize::checked_add: [some, value]
checked_add(a, b) ==
    LET r == AddLimbs(a, b, 0)
    IN [some |-> r[Len(a) + 1] = 0, value |-> SubSeq(r, 1, Len(a))]

RECURSIVE SubLimbs(_, _, _)
SubLimbs(a, b, borrow) ==
    IF a = <<>> THEN <<>>
    ELSE LET t == Head(a) - Head(b) - borrow
         IN <<t % 256>> \o SubLimbs(Tail(a), Tail(b), IF t < 0 THEN 1 ELSE 0)
\* a - b for a >= b
Sub(a, b) == SubLimbs(a, b, 0)

RECURSIVE LessLimbs(_, _)
LessLimbs(a, b) ==
    IF a = <<>> THEN FALSE
    ELSE LET n == Len(a)
         IN IF a[n] # b[n] THEN a[n] < b[n]
            ELSE LessLimbs(SubSeq(a, 1, n - 1), SubSeq(b, 1, n - 1))
Less(a, b) == LessLimbs(a, b)
\* a % m for a divisor m of 256
ModSmall(a, m) == a[1] % m

(***************************************************************************)
(* Byte strings of any length: a sequence of chunks <<bytes, count>>, the  *)
(* bytes repeated count times, the count a usize; either the bytes are one *)
(* byte or the count is 1.  A header of several gigabytes is a few chunks. *)
(***************************************************************************)
Run(b, n) == <<<<b>>, n>>
Lit(bytes) == <<bytes, U(1)>>
RunsOf(bytes) == IF bytes = <<>> THEN <<>> ELSE <<Lit(bytes)>>
ChunkLen(ch) == IF ch[2] = U(1) THEN U(Len(ch[1])) ELSE ch[2]

RECURSIVE RunsLen(_)
RunsLen(x) ==
    IF x = <<>> THEN U(0) ELSE checked_add(ChunkLen(Head(x)), RunsLen(Tail(x))).value

\* the first n bytes of x
RECURSIVE RunsTake(_, _)
RunsTake(x, n) ==
    IF x = <<>> \/ n = U(0) THEN <<>>
    ELSE IF Less(n, ChunkLen(Head(x)))
         THEN IF Head(x)[2] = U(1) THEN <<Lit(SubSeq(Head(x)[1], 1, N(n)))>>
              ELSE <<Run(Head(x)[1][1], n)>>
         ELSE <<Head(x)>> \o RunsTake(Tail(x), Sub(n, ChunkLen(Head(x))))

\* x without its first n bytes
RECURSIVE RunsDrop(_, _)
RunsDrop(x, n) ==
    IF x = <<>> \/ n = U(0) THEN x
    ELSE IF Less(n, ChunkLen(Head(x)))
         THEN (IF Head(x)[2] = U(1)
               THEN <<Lit(SubSeq(Head(x)[1], N(n) + 1, Len(Head(x)[1])))>>
               ELSE <<Run(Head(x)[1][1], Sub(Head(x)[2], n))>>) \o Tail(x)
         ELSE RunsDrop(Tail(x), Sub(n, ChunkLen(Head(x))))

\* x without empty chunks and with neighbouring unrepeated chunks joined
RECURSIVE Canon(_)
Canon(x) ==
    IF x = <<>> THEN <<>>
    ELSE LET rest == Canon(Tail(x))
             h == Head(x)
         IN IF ChunkLen(h) = U(0) THEN rest
            ELSE IF h[2] = U(1) /\ rest # <<>> /\ rest[1][2] = U(1)
                 THEN <<Lit(h[1] \o rest[1][1])>> \o Tail(rest)
                 ELSE <<h>> \o rest
\* the two byte strings have the same chunks once joined
SameBytes(x, y) == Canon(x) = Canon(y)
\* every byte of x is b
AllBytes(x, b) == \A i \in 1 .. Len(x) : \A j \in 1 .. Len(x[i][1]) : x[i][1][j] = b

\* Vec::resize(new_len, value)
resize(x, new_len, value) ==
    LET len == RunsLen(x)
    IN IF Less(len, new_len) THEN x \o <<Run(value, Sub(new_len, len))>>
       ELSE RunsTake(x, new_len)

\* the bytes of a short byte string, one by one
RECURSIVE Expand(_)
Expand(x) ==
    IF x = <<>> THEN <<>>
    ELSE (IF Head(x)[2] = U(1) THEN Head(x)[1]
          ELSE [i \in 1 .. N(Head(x)[2]) |-> Head(x)[1][1]]) \o Expand(Tail(x))

\* the last byte of a byte string that is not empty and has no empty chunk
LastByte(x) == LET ch == x[Len(x)] IN ch[1][Len(ch[1])]

(***************************************************************************)
(* The primitive element types (the macro invocations of mod.rs).          *)
(***************************************************************************)
ElemTypes == {"i8", "u8", "i16", "i32", "i64", "u16", "u32", "u64", "f32", "f64", "bool"}

SizeOf(t) ==
    CASE t \in {"i8", "u8", "bool"} -> 1
      [] t \in {"i16", "u16"} -> 2
      [] t \in {"i32", "u32", "f32"} -> 4
      [] t \in {"i64", "u64", "f64"} -> 8

LittleDesc(t) ==
    CASE t = "i8" -> <<"|", "i", "1">>
      [] t = "u8" -> <<"|", "u", "1">>
      [] t = "i16" -> <<"<", "i", "2">>
      [] t = "i32" -> <<"<", "i", "4">>
      [] t = "i64" -> <<"<", "i", "8">>
      [] t = "u16" -> <<"<", "u", "2">>
      [] t = "u32" -> <<"<", "u", "4">>
      [] t = "u64" -> <<"<", "u", "8">>
      [] t = "f32" -> <<"<", "f", "4">>
      [] t = "f64" -> <<"<", "f", "8">>
      [] t = "bool" -> <<"|", "b", "1">>

BigDesc(t) ==
    CASE t = "i8" -> <<"|", "i", "1">>
      [] t = "u8" -> <<"|", "u", "1">>
      [] t = "i16" -> <<">", "i", "2">>
      [] t = "i32" -> <<">", "i", "4">>
      [] t = "i64" -> <<">", "i", "8">>
      [] t = "u16" -> <<">", "u", "2">>
      [] t = "u32" -> <<">", "u", "4">>
      [] t = "u64" -> <<">", "u", "8">>
      [] t = "f32" -> <<">", "f", "4">>
      [] t = "f64" -> <<">", "f", "8">>
      [] t = "bool" -> <<"|", "b", "1">>

\* WritableElement::type_descriptor for the target's endianness
type_descriptor(t, target_endian) ==
    IF target_endian = "little" THEN PyString(LittleDesc(t)) ELSE PyString(BigDesc(t))

(***************************************************************************)
(* py_literal's ASCII formatting of the values a header holds              *)
(* (Value::write_ascii, called at header.rs:272).                          *)
(***************************************************************************)
T_(text) == Bytes(text)

RECURSIVE Decimal(_)
Decimal(n) == IF n < 10 THEN <<48 + n>> ELSE Decimal(n \div 10) \o <<48 + (n % 10)>>

RECURSIVE EscapeString(_)
EscapeString(text) ==
    IF text = <<>> THEN <<>>
    ELSE (CASE Head(text) = "\\" -> <<92, 92>>
            [] Head(text) = "'" -> <<92, 39>>
            [] OTHER -> <<Ord(Head(text))>>) \o EscapeString(Tail(text))

RECURSIVE WriteAscii(_)
RECURSIVE WriteTupleItems(_)
RECURSIVE WriteDictItems(_)
WriteTupleItems(items) ==
    IF Len(items) = 1 THEN WriteAscii(items[1])
    ELSE WriteAscii(Head(items)) \o T_(<<",", " ">>) \o WriteTupleItems(Tail(items))
WriteDictItems(pairs) ==
    IF pairs = <<>> THEN <<>>
    ELSE WriteAscii(Head(pairs)[1]) \o T_(<<":", " ">>) \o WriteAscii(Head(pairs)[2])
            \o T_(<<",", " ">>) \o WriteDictItems(Tail(pairs))
WriteAscii(val) ==
    CASE val.kind = "String" -> T_(<<"'">>) \o EscapeString(val.v) \o T_(<<"'">>)
      [] val.kind = "Boolean" -> IF val.v THEN T_(<<"T", "r", "u", "e">>)
                                 ELSE T_(<<"F", "a", "l", "s", "e">>)
      [] val.kind = "Integer" -> Decimal(val.v)
      [] val.kind = "Tuple" ->
            IF val.v = <<>> THEN T_(<<"(", ")">>)
            ELSE IF Len(val.v) = 1 THEN T_(<<"(">>) \o WriteAscii(val.v[1]) \o T_(<<",", ")">>)
            ELSE T_(<<"(">>) \o WriteTupleItems(val.v) \o T_(<<")">>)
      [] val.kind = "Dict" -> T_(<<"{">>) \o WriteDictItems(val.v) \o T_(<<"}">>)

(***************************************************************************)
(* The header codec (header.rs): Version and Header.                       *)
(***************************************************************************)
MAGIC_STRING == <<147, 78, 85, 77, 80, 89>>   \* b"\x93NUMPY"
HEADER_DIVISOR == 64
VERSION_NUM_BYTES == 2
NEWLINE_LEN == 1

KeyDescr == <<"d", "e", "s", "c", "r">>
KeyFortranOrder == <<"f", "o", "r", "t", "r", "a", "n", "_", "o", "r", "d", "e", "r">>
KeyShape == <<"s", "h", "a", "p", "e">>

\* Version::major_version
major_version(version) ==
    CASE version = "V1_0" -> 1 [] version = "V2_0" -> 2 [] version = "V3_0" -> 3
\* Version::minor_version
minor_version(version) ==
    CASE version = "V1_0" -> 0 [] version = "V2_0" -> 0 [] version = "V3_0" -> 0
\* Version::header_len_num_bytes
header_len_num_bytes(version) ==
    CASE version = "V1_0" -> 2 [] version \in {"V2_0", "V3_0"} -> 4

\* u16::try_from / u32::try_from of a usize: whether it fits nbytes bytes
FitsBytes(value, nbytes) == \A i \in nbytes + 1 .. Len(value) : value[i] = 0
\* LittleEndian::write_u16 / write_u32: the low byte first
LittleEndianWrite_most_significant_first(value, nbytes) ==
    [i \in 1 .. nbytes |-> value[nbytes + 1 - i]]
LittleEndianWrite(value, nbytes) == [i \in 1 .. nbytes |-> value[i]]

\* Version::format_header_len: [some, value]
format_header_len(version, header_len) ==
    LET nbytes == header_len_num_bytes(version)
    IN IF FitsBytes(header_len, nbytes)
       THEN [some |-> TRUE, value |-> LittleEndianWrite(header_len, nbytes)]
       ELSE [some |-> FALSE, value |-> <<>>]

NoLengths == [some |-> FALSE, total_len |-> U(0), formatted_header_len |-> <<>>]

\* the padding compute_lengths adds to an unpadded total with this remainder
padding_len_for_never_zero(pad_res) == HEADER_DIVISOR - pad_res
padding_len_for(pad_res) == IF pad_res = 0 THEN 0 ELSE HEADER_DIVISOR - pad_res

\* Version::compute_lengths for a record of arr_len bytes, from its last step
\* back to its first: [some, total_len, formatted_header_len]
prefix_len(version) ==
    U(Len(MAGIC_STRING) + VERSION_NUM_BYTES + header_len_num_bytes(version))
\* Some(HeaderLengthInfo { total_len, formatted_header_len })
compute_lengths_formatted(total_len, formatted) ==
    IF ~formatted.some THEN NoLengths
    ELSE [some |-> TRUE, total_len |-> total_len, formatted_header_len |-> formatted.value]
\* self.format_header_len(total_len - prefix_len)?
compute_lengths_total(version, total_len) ==
    IF ~total_len.some THEN NoLengths
    ELSE compute_lengths_formatted(
             total_len.value,
             format_header_len(version, Sub(total_len.value, prefix_len(version))))
\* pad_res, padding_len and unpadded_total_len.checked_add(padding_len)?
compute_lengths_unpadded(version, unpadded_total_len) ==
    IF ~unpadded_total_len.some THEN NoLengths
    ELSE compute_lengths_total(
             version,
             checked_add(unpadded_total_len.value,
                         U(padding_len_for(ModSmall(unpadded_total_len.value,
                                                    HEADER_DIVISOR)))))
\* prefix_len.checked_add(unpadded_arr_format.len())?.checked_add(NEWLINE_LEN)?
compute_lengths_sum(version, sum) ==
    IF ~sum.some THEN NoLengths
    ELSE compute_lengths_unpadded(version, checked_add(sum.value, U(NEWLINE_LEN)))
compute_lengths(version, arr_len) ==
    compute_lengths_sum(version, checked_add(prefix_len(version), arr_len))

\* Header::to_py_value
to_py_value(h) ==
    PyDict(<< <<PyString(KeyDescr), h.type_descriptor>>,
              <<PyString(KeyFortranOrder), PyBoolean(h.fortran_order)>>,
              <<PyString(KeyShape),
                PyTuple([i \in 1 .. Len(h.shape) |-> PyInteger(h.shape[i])])>> >>)

\* the versions to_bytes tries, in its order
FormatVersions_newest_first == <<"V2_0", "V1_0">>
FormatVersions == <<"V1_0", "V2_0">>

\* [..].iter().find_map(..): the first version whose lengths can be computed
RECURSIVE find_version(_, _)
RECURSIVE find_version_with(_, _, _)
find_version_with(versions, arr_len, info) ==
    IF info.some THEN [some |-> TRUE, version |-> Head(versions), length_info |-> info]
    ELSE find_version(Tail(versions), arr_len)
find_version(versions, arr_len) ==
    IF versions = <<>> THEN [some |-> FALSE, version |-> "none", length_info |-> NoLengths]
    ELSE find_version_with(versions, arr_len, compute_lengths(Head(versions), arr_len))

RunOne == U(1)

\* "Write the header": the bytes pushed to out, as chunks
write_header(version, length_info, arr_format) ==
    resize(RunsOf(MAGIC_STRING)
             \o RunsOf(<<major_version(version), minor_version(version)>>)
             \o RunsOf(length_info.formatted_header_len)
             \o arr_format,
           Sub(length_info.total_len, U(1)), Space)
      \o <<Run(Newline, RunOne)>>

\* .ok_or(FormatHeaderError::HeaderTooLong)?
to_bytes_found(arr_format, found) ==
    IF ~found.some THEN [ok |-> FALSE, bytes |-> <<>>, err |-> "HeaderTooLong"]
    ELSE [ok |-> TRUE, bytes |-> write_header(found.version, found.length_info, arr_format),
          err |-> "None"]

\* Header::to_bytes from the point where arr_format has been formatted;
\* arr_format and the result's bytes are chunks: [ok, bytes, err]
to_bytes_of(arr_format) ==
    to_bytes_found(arr_format, find_version(FormatVersions, RunsLen(arr_format)))

\* where the text of the descriptor ends in the record of h
DescrEnd(h) == Len(WriteAscii(PyString(KeyDescr))) + Len(T_(<<":", " ">>))
                 + Len(WriteAscii(h.type_descriptor)) - 1

\* a record with the letter a added stretch times after its first cut bytes
Stretched(rec, cut, stretch) ==
    IF stretch = U(0) THEN RunsOf(rec)
    ELSE <<Lit(SubSeq(rec, 1, cut)), Run(Ord("a"), stretch),
           Lit(SubSeq(rec, cut + 1, Len(rec)))>>

\* to_py_value().write_ascii(&mut arr_format) for the header that is h with
\* the letter a added stretch times to the end of its descriptor text
arr_format_of(h, stretch) == Stretched(WriteAscii(to_py_value(h)), DescrEnd(h) + 1, stretch)

\* Header::to_bytes
to_bytes(h) == to_bytes_of(arr_format_of(h, U(0)))

(***************************************************************************)
(* The bytes of elements (mod.rs, impl_writable_primitive).  An element    *)
(* other than a bool is the sequence of its bytes, most significant first. *)
(***************************************************************************)
\* a byte string back to front
Reverse(bytes) == [i \in 1 .. Len(bytes) |-> bytes[Len(bytes) + 1 - i]]
\* the bytes of a value in a byte order
ToBytes(endian, value) == IF endian = "little" THEN Reverse(value) ELSE value

\* the bytes an element has in the memory of the target
ElemBytes_most_significant_first(t, target_endian, value) ==
    IF t = "bool" THEN (IF value THEN <<1>> ELSE <<0>>) ELSE value
ElemBytes(t, target_endian, value) ==
    IF t = "bool" THEN (IF value THEN <<1>> ELSE <<0>>) ELSE ToBytes(target_endian, value)

\* cast(slice): the bytes of the elements, one after the other
SliceBytes(t, target_endian, slice) ==
    [i \in 1 .. Len(slice) * SizeOf(t) |->
        ElemBytes(t, target_endian, slice[((i - 1) \div SizeOf(t)) + 1])[((i - 1) % SizeOf(t)) + 1]]

(***************************************************************************)
(* The streaming writer (stream.rs).                                       *)
(***************************************************************************)
NoErr == [kind |-> "None", a |-> 0, b |-> 0]
IoErr == [kind |-> "Io", a |-> 0, b |-> 0]
TooManyElements(tot, n) == [kind |-> "TooManyElements", a |-> tot, b |-> n]
TooFewElements(tot, n) == [kind |-> "TooFewElements", a |-> tot, b |-> n]
Ok(v) == [ok |-> TRUE, val |-> v, err |-> NoErr]
Err(e) == [ok |-> FALSE, val |-> 0, err |-> e]
NoCall == [op |-> "none", len |-> 0]
NoStream == [tot_elems |-> 0, written_elems |-> 0, closed |-> FALSE]
NoFile == [created |-> FALSE, headers |-> <<>>, data |-> <<>>]
\* what a caller who has called no shape setter and neither f() nor c() has
\* asked for: the empty shape, in row-major order
NothingAsked == [dim |-> <<>>, order |-> "c"]

\* the sizes a caller passes as one dimension
DimVals == (0 .. MaxDim) \cup {HugeDim}
\* the shapes a caller passes: rank 0 to 3
Shapes == {<<>>} \cup {<<d1>> : d1 \in DimVals}
              \cup {<<d1, d2>> : d1 \in DimVals, d2 \in DimVals}
              \cup {<<d1, d2, d3>> : d1 \in DimVals, d2 \in DimVals, d3 \in DimVals}

\* usize multiplication: the wrapped product and whether it overflowed
MulUsize(s, a) == [value |-> (s * a) % UsizeRange, overflow |-> s * a >= UsizeRange]
\* usize addition
AddUsize(s, a) == [value |-> (s + a) % UsizeRange, overflow |-> s + a >= UsizeRange]

\* shape.iter().fold(1, |s, &a| s * a): the total and whether a step overflowed
RECURSIVE FoldShape(_, _)
FoldShape(shape, s) ==
    IF shape = <<>> THEN [value |-> s, overflow |-> FALSE]
    ELSE LET p == MulUsize(s, Head(shape))
             r == FoldShape(Tail(shape), p.value)
         IN [value |-> r.value, overflow |-> p.overflow \/ r.overflow]

\* NpyOutStream::tot_elems
tot_elems(s) == s.tot_elems
\* NpyOutStream::finished
finished(s) == s.tot_elems = s.written_elems

\* NpyOutStreamBuilder::new
BuilderNew(t, target_endian) ==
    [type_descriptor |-> type_descriptor(t, target_endian),
     fortran_order |-> FALSE,
     shape |-> <<>>]

\* for_dim, for_arr1, for_arr2, for_arr3: clear the shape, then extend it
SetShape_without_clear(h, dim) == [h EXCEPT !.shape = @ \o dim]
SetShape(h, dim) == [h EXCEPT !.shape = <<>> \o dim]

for_dim ==
    /\ pc = "Building"
    /\ \E dim \in Shapes : /\ builder' = SetShape(builder, dim)
                          /\ asked' = [asked EXCEPT !.dim = dim]
    /\ call' = [op |-> "for_dim", len |-> 0]
    /\ UNCHANGED codecVars
    /\ UNCHANGED <<pc, env, stream, file, ret, stderr, accepted, io_faults>>

for_arr1 ==
    /\ pc = "Building"
    /\ \E len \in DimVals : /\ builder' = SetShape(builder, <<len>>)
                           /\ asked' = [asked EXCEPT !.dim = <<len>>]
    /\ call' = [op |-> "for_arr1", len |-> 0]
    /\ UNCHANGED codecVars
    /\ UNCHANGED <<pc, env, stream, file, ret, stderr, accepted, io_faults>>

for_arr2 ==
    /\ pc = "Building"
    /\ \E d1 \in DimVals, d2 \in DimVals :
          /\ builder' = SetShape(builder, <<d1, d2>>)
          /\ asked' = [asked EXCEPT !.dim = <<d1, d2>>]
    /\ call' = [op |-> "for_arr2", len |-> 0]
    /\ UNCHANGED codecVars
    /\ UNCHANGED <<pc, env, stream, file, ret, stderr, accepted, io_faults>>

for_arr3 ==
    /\ pc = "Building"
    /\ \E d1 \in DimVals, d2 \in DimVals, d3 \in DimVals :
          /\ builder' = SetShape(builder, <<d1, d2, d3>>)
          /\ asked' = [asked EXCEPT !.dim = <<d1, d2, d3>>]
    /\ call' = [op |-> "for_arr3", len |-> 0]
    /\ UNCHANGED codecVars
    /\ UNCHANGED <<pc, env, stream, file, ret, stderr, accepted, io_faults>>

f ==
    /\ pc = "Building"
    /\ builder' = [builder EXCEPT !.fortran_order = TRUE]
    /\ asked' = [asked EXCEPT !.order = "f"]
    /\ call' = [op |-> "f", len |-> 0]
    /\ UNCHANGED codecVars
    /\ UNCHANGED <<pc, env, stream, file, ret, stderr, accepted, io_faults>>

c ==
    /\ pc = "Building"
    /\ builder' = [builder EXCEPT !.fortran_order = FALSE]
    /\ asked' = [asked EXCEPT !.order = "c"]
    /\ call' = [op |-> "c", len |-> 0]
    /\ UNCHANGED codecVars
    /\ UNCHANGED <<pc, env, stream, file, ret, stderr, accepted, io_faults>>

\* a panic of the thread (an arithmetic overflow in a build that checks it)
Panic == [kind |-> "Panic", a |-> 0, b |-> 0]

\* NpyOutStreamBuilder::build.  File::create and Header::write may fail with
\* an I/O error.  An overflow in the fold wraps or panics, as the build's
\* overflow checks decide.
build ==
    /\ pc = "Building"
    /\ call' = [op |-> "build", len |-> 0]
    /\ \/ \* File::create fails
          /\ io_faults < MaxIoFaults
          /\ io_faults' = io_faults + 1
          /\ ret' = Err(IoErr)
          /\ pc' = "Ended"
          /\ UNCHANGED <<stream, file>>
       \/ \* the file is created; writing the header fails
          /\ io_faults < MaxIoFaults
          /\ io_faults' = io_faults + 1
          /\ ret' = Err(IoErr)
          /\ pc' = "Ended"
          /\ file' = [created |-> TRUE, headers |-> <<>>, data |-> <<>>]
          /\ UNCHANGED stream
       \/ \* the header is written
          /\ file' = [created |-> TRUE, headers |-> <<builder>>, data |-> <<>>]
          /\ LET tot == FoldShape(builder.shape, 1)
             IN \E overflow_checks \in (IF tot.overflow THEN BOOLEAN ELSE {FALSE}) :
                  IF overflow_checks
                  THEN /\ ret' = Err(Panic)
                       /\ pc' = "Ended"
                       /\ UNCHANGED stream
                  ELSE /\ stream' = [tot_elems |-> tot.value, written_elems |-> 0,
                                     closed |-> FALSE]
                       /\ ret' = Ok(0)
                       /\ pc' = "Open"
          /\ UNCHANGED io_faults
    /\ UNCHANGED codecVars
    /\ UNCHANGED <<env, builder, stderr, accepted, asked>>

\* write_slice's test, self.written_elems + slice.len() > self.tot_elems
ExceedsTotal_off_by_one(s, sum) == sum >= s.tot_elems
ExceedsTotal_ignores_chunk(s, sum) == s.written_elems > s.tot_elems
ExceedsTotal(s, sum) == sum > s.tot_elems

\* write_slice's self.written_elems += slice.len()
Advance_by_one(s, sum) == [s EXCEPT !.written_elems = IF sum > @ THEN @ + 1 ELSE @]
Advance(s, sum) == [s EXCEPT !.written_elems = sum]

\* the stream after T::write_slice(slice, &mut self.writer)? has failed: the
\* call returns at the question mark, before the counter is advanced
FailedWrite_counts_the_chunk(s, sum) == [s EXCEPT !.written_elems = sum]
FailedWrite(s, sum) == s

\* the zeros that follow the elements in a caller's buffer, enough of them
\* for every slice
ZeroBuffer == [i \in 1 .. (MaxWritten + MaxChunk) * SizeOf("i16") |-> 0]
\* cast(slice) of the slice a caller passes, which is the next len elements
\* of its buffer after those the stream has accepted: the
\* slice.len() * size_of::<T>() bytes of memory at the slice's address
cast(memory, t, done, len) ==
    SubSeq(memory \o ZeroBuffer, done * SizeOf(t) + 1, (done + len) * SizeOf(t))

\* writer.write_all(bytes): the bytes follow those the file holds
write_all_from_the_start(fl, bytes) == [fl EXCEPT !.data = bytes]
write_all(fl, bytes) == [fl EXCEPT !.data = @ \o bytes]
\* the files a write_all that fails may leave: a part of the bytes is written
write_all_failing(fl, bytes) == {write_all(fl, SubSeq(bytes, 1, k)) : k \in 0 .. Len(bytes) - 1}

\* NpyOutStream::write_slice, with T::write_slice (writer.write_all of
\* len * size_of::<T>() bytes), which may fail after a part of the bytes
write_slice ==
    /\ pc = "Open"
    /\ stream.written_elems < MaxWritten
    /\ \E len \in 0 .. MaxChunk :
          LET sum == AddUsize(stream.written_elems, len)
              bytes == cast(env.memory, env.T, accepted, len)
          IN /\ call' = [op |-> "write_slice", len |-> len]
             /\ \E overflow_checks \in (IF sum.overflow THEN BOOLEAN ELSE {FALSE}) :
                IF overflow_checks
                THEN /\ ret' = Err(Panic)
                     /\ pc' = "Ended"
                     /\ UNCHANGED <<stream, file, accepted, io_faults>>
                ELSE IF ExceedsTotal(stream, sum.value)
                THEN /\ ret' = Err(TooManyElements(stream.tot_elems, sum.value))
                     /\ UNCHANGED <<pc, stream, file, accepted, io_faults>>
                ELSE \/ /\ stream' = Advance(stream, sum.value)
                        /\ ret' = Ok(stream'.written_elems)
                        /\ accepted' = accepted + len
                        /\ file' = write_all(file, bytes)
                        /\ UNCHANGED <<pc, io_faults>>
                     \/ /\ io_faults < MaxIoFaults
                        /\ io_faults' = io_faults + 1
                        /\ stream' = FailedWrite(stream, sum.value)
                        /\ ret' = Err(IoErr)
                        /\ file' \in write_all_failing(file, bytes)
                        /\ UNCHANGED <<pc, accepted>>
    /\ UNCHANGED codecVars
    /\ UNCHANGED <<env, builder, stderr, asked>>

\* Drop::drop for NpyOutStream: the lines it prints
DropWarnings_unless_closed(s) ==
    IF ~s.closed
    THEN <<[expect |-> tot_elems(s), received |-> s.written_elems]>>
    ELSE <<>>
DropWarnings_after_close_too(s) ==
    IF ~finished(s)
    THEN <<[expect |-> tot_elems(s), received |-> s.written_elems]>>
    ELSE <<>>
DropWarnings(s) ==
    IF ~s.closed /\ ~finished(s)
    THEN <<[expect |-> tot_elems(s), received |-> s.written_elems]>>
    ELSE <<>>

\* what close returns
CloseResult_rejects_full(s) ==
    IF s.written_elems <= s.tot_elems
    THEN Err(TooFewElements(tot_elems(s), s.written_elems))
    ELSE Ok(0)
CloseResult(s) ==
    IF s.written_elems < s.tot_elems
    THEN Err(TooFewElements(tot_elems(s), s.written_elems))
    ELSE Ok(0)

\* NpyOutStream::close(mut self): it consumes the stream, which is dropped
\* when close returns
close ==
    /\ pc = "Open"
    /\ call' = [op |-> "close", len |-> 0]
    /\ LET closing == [stream EXCEPT !.closed = TRUE]
       IN /\ stream' = closing
          /\ ret' = CloseResult(closing)
          /\ stderr' = stderr \o DropWarnings(closing)
    /\ pc' = "Ended"
    /\ UNCHANGED codecVars
    /\ UNCHANGED <<env, builder, file, accepted, io_faults, asked>>

\* the stream goes out of scope without close
drop ==
    /\ pc = "Open"
    /\ call' = [op |-> "drop", len |-> 0]
    /\ stderr' = stderr \o DropWarnings(stream)
    /\ pc' = "Ended"
    /\ UNCHANGED codecVars
    /\ UNCHANGED <<env, builder, stream, file, ret, accepted, io_faults, asked>>

\* a codec that is not in use
Idle == [stage |-> "idle"]

\* the element type the stream of Spec is opened for (the code is generic in T,
\* which only decides the descriptor and the element size).  The caller of
\* Spec writes zeros: its claims are about the number of elements.
StreamTypes == {"i16"}

Init ==
    /\ pc = "Building"
    /\ env \in [T : StreamTypes, target_endian : {"little"}, elems : {<<>>}, memory : {<<>>}]
    /\ builder = BuilderNew(env.T, env.target_endian)
    /\ stream = NoStream
    /\ file = NoFile
    /\ call = NoCall
    /\ ret = Ok(0)
    /\ stderr = <<>>
    /\ accepted = 0
    /\ io_faults = 0
    /\ asked = NothingAsked
    /\ fmt = Idle /\ rd = Idle /\ npy = Idle /\ hread = Idle

Next ==
    \/ for_dim \/ for_arr1 \/ for_arr2 \/ for_arr3 \/ f \/ c
    \/ build \/ write_slice \/ close \/ drop

Spec == Init /\ [][Next]_vars

(***************************************************************************)
(* The claims about the streaming writer, checked under Spec.  A step of   *)
(* write_slice is a step of an open stream that leaves write_slice as the  *)
(* call made: no other action sets it.                                     *)
(***************************************************************************)

\* C1: a write_slice call on an open stream is rejected with TooManyElements
\* exactly when written + len(chunk) > total, and the error then carries
\* (total, written + len(chunk)); a chunk that fits is never rejected so.
C1_TooManyElementsIff ==
    [][(pc = "Open" /\ call'.op = "write_slice") =>
         LET total == stream.tot_elems
             attempted == stream.written_elems + call'.len
         IN /\ (ret'.err.kind = "TooManyElements") <=> (attempted > total)
            /\ (attempted > total) => ret' = Err(TooManyElements(total, attempted))]_vars

\* C1 witness: on a 6-element stream holding 2 elements a chunk of 5 was
\* rejected with TooManyElements(6, 7)
C1_Witness ==
    /\ pc = "Open"
    /\ call = [op |-> "write_slice", len |-> 5]
    /\ stream.written_elems = 2
    /\ ret = Err(TooManyElements(6, 7))

\* C2: close returns TooFewElements(total, written) exactly when
\* written < total, and succeeds exactly when written = total.
C2_CloseResult ==
    call.op = "close" =>
        /\ (stream.written_elems < stream.tot_elems)
              <=> (ret = Err(TooFewElements(stream.tot_elems, stream.written_elems)))
        /\ ret.ok <=> (stream.written_elems = stream.tot_elems)
        /\ ~ret.ok => ret.err.kind = "TooFewElements"

\* C2 witness: close after 5 of 6 elements returned TooFewElements(6, 5)
C2_Witness ==
    /\ call.op = "close"
    /\ ret = Err(TooFewElements(6, 5))

\* C3: while the stream is open the written counter never exceeds the
\* declared total, whatever write_slice calls were made.
C3_WrittenAtMostTotal ==
    pc = "Open" => stream.written_elems <= stream.tot_elems

\* C3 witness: a full 6-element stream that has just rejected another chunk
C3_Witness ==
    /\ pc = "Open"
    /\ stream.tot_elems = 6
    /\ stream.written_elems = 6
    /\ call.op = "write_slice"
    /\ ret.err.kind = "TooManyElements"

\* C4: the written counter is the sum of the lengths of the accepted chunks,
\* a successful write_slice returns that count, finished() holds exactly when
\* the sum equals the declared total, and a finished stream closes with Ok.
C4_CounterIsSumOfAccepted ==
    pc \in {"Open", "Ended"} =>
        /\ stream.written_elems = accepted
        /\ finished(stream) <=> (accepted = stream.tot_elems)
        /\ (call.op = "write_slice" /\ ret.ok) => ret.val = accepted
        /\ (call.op = "close" /\ accepted = stream.tot_elems) => ret.ok

\* C4 witness: a 6-element stream whose last accepted chunk had 4 elements
\* and returned the count 6
C4_Witness ==
    /\ pc = "Open"
    /\ stream.tot_elems = 6
    /\ call = [op |-> "write_slice", len |-> 4]
    /\ ret = Ok(6)
    /\ finished(stream)

\* C5: a stream dropped without close prints one warning naming the declared
\* total and the written count exactly when written < total, and nothing
\* when it had received every element; the drop returns no error.
C5_DropWarning ==
    call.op = "drop" =>
        /\ pc = "Ended"
        /\ ret.err.kind \notin {"Panic", "TooFewElements"}
        /\ stderr = IF stream.written_elems < stream.tot_elems
                    THEN <<[expect |-> stream.tot_elems,
                            received |-> stream.written_elems]>>
                    ELSE <<>>

\* C5 witness: a 6-element stream dropped after 5 elements printed the warning
C5_Witness ==
    /\ call.op = "drop"
    /\ stderr = <<[expect |-> 6, received |-> 5]>>

\* C15: a write_slice call that returns TooManyElements or an I/O error
\* leaves tot_elems, the written counter and finished() as they were and the
\* stream open; a TooManyElements rejection leaves the file as it was; and
\* the call after a failed one, if its chunk fits in what remains, is not
\* rejected with TooManyElements and, unless the file fails, advances the
\* counter by the length of the chunk and returns it.
C15_FailedWriteLeavesStream ==
    [][(pc = "Open" /\ call'.op = "write_slice") =>
         LET failed == ret'.err.kind \in {"TooManyElements", "Io"}
             fits == stream.written_elems + call'.len <= stream.tot_elems
         IN /\ failed => /\ tot_elems(stream') = tot_elems(stream)
                          /\ stream'.written_elems = stream.written_elems
                          /\ finished(stream') = finished(stream)
                          /\ stream'.closed = FALSE /\ pc' = "Open"
            /\ ret'.err.kind = "TooManyElements" => file' = file
            /\ (call.op = "write_slice" /\ ~ret.ok /\ fits) =>
                  /\ ret'.err.kind # "TooManyElements"
                  /\ ret'.ok => /\ stream'.written_elems
                                     = stream.written_elems + call'.len
                                /\ ret' = Ok(stream'.written_elems)]_vars

\* C15 witness: an open 6-element stream on which a write_slice failed on the
\* file, and which then took a chunk of 4 and is complete
C15_Witness ==
    /\ pc = "Open"
    /\ io_faults = 1
    /\ stream = [tot_elems |-> 6, written_elems |-> 6, closed |-> FALSE]
    /\ call = [op |-> "write_slice", len |-> 4]
    /\ ret = Ok(6)

(***************************************************************************)
(* Header formatting on its own: SpecFormat formats one header.            *)
(***************************************************************************)

\* the stream variables of a run that opens no stream
StreamUnused ==
    /\ pc = "Unused"
    /\ env = [T |-> "i16", target_endian |-> "little", elems |-> <<>>, memory |-> <<>>]
    /\ builder = BuilderNew(env.T, env.target_endian)
    /\ stream = NoStream
    /\ file = NoFile
    /\ call = NoCall
    /\ ret = Ok(0)
    /\ stderr = <<>>
    /\ accepted = 0
    /\ io_faults = 0
    /\ asked = NothingAsked

\* how far the descriptor lengths range above 0 and below each capacity
MaxStretch == 80

\* 2^16, 2^32 and 2^63 as usize: the lengths near which a 2-byte field, a
\* 4-byte field and a Vec are full
StretchTops == { <<0, 0, 1, 0, 0, 0, 0, 0>>,
                 <<0, 0, 0, 0, 1, 0, 0, 0>>,
                 <<0, 0, 0, 0, 0, 0, 0, 128>> }
Stretches == {U(d) : d \in 0 .. MaxStretch}
                \cup {Sub(top, U(d)) : top \in StretchTops, d \in 1 .. MaxStretch}

\* descriptor texts: those of the library's types and one that needs escapes
FmtDescrs == {LittleDesc("i16"), BigDesc("f64"), LittleDesc("bool"), <<"a", "'", "\\">>}
FmtShapes == {<<>>, <<0>>, <<2, 30>>, <<7, 1, 100>>}
FmtHeaders == [type_descriptor : {PyString(t) : t \in FmtDescrs},
               fortran_order : BOOLEAN,
               shape : FmtShapes]

InitFormat ==
    /\ StreamUnused
    /\ fmt \in [stage : {"header"}, h : FmtHeaders, stretch : Stretches,
                out : {[ok |-> FALSE, bytes |-> <<>>, err |-> "None"]}]
    /\ rd = Idle
    /\ npy = Idle
    /\ hread = Idle

\* a call of Header::to_bytes
format_header ==
    /\ fmt.stage = "header"
    /\ fmt' = [fmt EXCEPT !.stage = "done",
                          !.out = to_bytes_of(arr_format_of(fmt.h, fmt.stretch))]
    /\ UNCHANGED <<streamVars, rd, npy, hread>>

NextFormat == format_header

SpecFormat == InitFormat /\ [][NextFormat]_vars

\* the length of the prefix of formatted bytes: magic string, version and a
\* length field of 2 bytes after version 1 and 4 bytes after version 2
PrefixLenOf(out) == IF Expand(RunsTake(out, U(7)))[7] = 1 THEN 10 ELSE 12

\* C7: whenever to_bytes succeeds, the length of its output is a multiple of
\* 64, the last byte is a newline, the record follows the prefix, and what lies
\* between the end of the record and the newline is 0 to 63 bytes, all spaces.
C7_PaddedToMultipleOf64 ==
    (fmt.stage = "done" /\ fmt.out.ok) =>
        LET out == fmt.out.bytes
            rec == arr_format_of(fmt.h, fmt.stretch)
            after_prefix == RunsDrop(out, U(PrefixLenOf(out)))
            after_rec == RunsDrop(after_prefix, RunsLen(rec))
            padding == RunsTake(after_rec, Sub(RunsLen(after_rec), U(1)))
        IN /\ RunsLen(out)[1] % 64 = 0
           /\ LastByte(out) = 10
           /\ SameBytes(RunsTake(after_prefix, RunsLen(rec)), rec)
           /\ Less(U(0), RunsLen(after_rec))
           /\ Less(RunsLen(padding), U(64))
           /\ AllBytes(padding, 32)

\* C7 witness: a header was formatted with 63 spaces of padding, and its
\* bytes are 128 long
C7_Witness ==
    /\ fmt.stage = "done" /\ fmt.out.ok
    /\ RunsLen(fmt.out.bytes) = U(128)
    /\ fmt.out.bytes[Len(fmt.out.bytes) - 1] = Run(32, U(63))
    /\ LastByte(fmt.out.bytes) = 10

\* C8: a record of n bytes is written as version 1.0 with a 2-byte length
\* field when the padded length after the 10-byte prefix fits 2 bytes
\* (n <= 65525), as version 2.0 with a 4-byte field when it does not but the
\* padded length after the 12-byte prefix fits 4 bytes (n <= 2^32 - 13), and
\* otherwise fails with HeaderTooLong and no bytes; the field holds the
\* number of bytes that follow it.
C8_FirstVersionThatFits ==
    fmt.stage = "done" =>
        LET n == RunsLen(arr_format_of(fmt.h, fmt.stretch))
            out == fmt.out.bytes
            start == Expand(RunsTake(out, U(12)))
            fits2 == ~Less(U(65525), n)
            fits4 == ~Less(<<243, 255, 255, 255, 0, 0, 0, 0>>, n)
        IN IF fits2
           THEN /\ fmt.out.ok
                /\ SubSeq(start, 7, 8) = <<1, 0>>
                /\ SubSeq(start, 9, 10) \o <<0, 0, 0, 0, 0, 0>> = Sub(RunsLen(out), U(10))
           ELSE IF fits4
           THEN /\ fmt.out.ok
                /\ SubSeq(start, 7, 8) = <<2, 0>>
                /\ SubSeq(start, 9, 12) \o <<0, 0, 0, 0>> = Sub(RunsLen(out), U(12))
           ELSE /\ ~fmt.out.ok
                /\ fmt.out.err = "HeaderTooLong"
                /\ fmt.out.bytes = <<>>

\* C8 witness: a record of 65526 bytes, one more than version 1.0 holds, was
\* written as version 2.0 with the 4-byte field 65588
C8_Witness ==
    /\ fmt.stage = "done" /\ fmt.out.ok
    /\ RunsLen(arr_format_of(fmt.h, fmt.stretch)) = U(65526)
    /\ Expand(RunsTake(fmt.out.bytes, U(12))) = MAGIC_STRING \o <<2, 0>> \o <<52, 0, 1, 0>>

(***************************************************************************)
(* The element readers (mod.rs): ReadableElement::read_to_end_exact_vec.   *)
(* A value of a multi-byte type is its bytes, the most significant first;  *)
(* a bool is TRUE or FALSE.                                                *)
(***************************************************************************)

\* ReadDataError
ReadIo(io_kind) == [kind |-> "Io", io |-> io_kind]
WrongDescriptor(desc) == [kind |-> "WrongDescriptor", desc |-> desc]
MissingData == [kind |-> "MissingData"]
ExtraBytes(n) == [kind |-> "ExtraBytes", n |-> n]
ParseBoolError(byte) == [kind |-> "ParseBoolError", byte |-> byte]

\* an io::Read over bytes in memory; fault names the call of it that fails
\* with an I/O error of its own, if any
Reader(data, fault) == [data |-> data, pos |-> 0, fault |-> fault]
Remaining(reader) == Len(reader.data) - reader.pos

\* Read::read_exact of n bytes: [ok, bytes, err, reader]
read_exact(reader, n) ==
    IF reader.fault = "read_exact"
    THEN [ok |-> FALSE, bytes |-> <<>>, err |-> ReadIo("Other"), reader |-> reader]
    ELSE IF Remaining(reader) < n
    THEN [ok |-> FALSE, bytes |-> <<>>, err |-> ReadIo("UnexpectedEof"),
          reader |-> [reader EXCEPT !.pos = Len(reader.data)]]
    ELSE [ok |-> TRUE, bytes |-> SubSeq(reader.data, reader.pos + 1, reader.pos + n),
          err |-> NoErr, reader |-> [reader EXCEPT !.pos = @ + n]]

\* Read::read_to_end: the number of bytes read
read_to_end(reader) ==
    IF reader.fault = "read_to_end" THEN Err(ReadIo("Other"))
    ELSE Ok(Remaining(reader))

\* check_for_extra_bytes
check_for_extra_bytes_lenient(reader) ==
    LET num_extra_bytes == read_to_end(reader)
    IN IF ~num_extra_bytes.ok THEN num_extra_bytes ELSE Ok(0)
check_for_extra_bytes(reader) ==
    LET num_extra_bytes == read_to_end(reader)
    IN IF ~num_extra_bytes.ok THEN num_extra_bytes
       ELSE IF num_extra_bytes.val = 0 THEN Ok(0)
       ELSE Err(ExtraBytes(num_extra_bytes.val))

\* the value of size bytes read in a byte order
FromBytes(endian, bytes) == IF endian = "little" THEN Reverse(bytes) ELSE bytes

\* byteorder's read_*_into::<E>(&mut out): n values of size bytes each
DecodeAll(endian, bytes, size, n) ==
    [i \in 1 .. n |-> FromBytes(endian, SubSeq(bytes, (i - 1) * size + 1, i * size))]

\* the descriptors the one-byte readers take
OneByteDescs(t) ==
    CASE t = "i8" -> {<<"|", "i", "1">>, <<"i", "1">>, <<"b">>}
      [] t = "u8" -> {<<"|", "u", "1">>, <<"u", "1">>, <<"B">>}

\* the readers' comparison s == $desc
DescIs_whatever_the_width(s, desc) ==
    Len(s) = Len(desc) /\ \A i \in 1 .. Len(s) - 1 : s[i] = desc[i]
DescIs(s, desc) == s = desc

IsString(val) == val.kind = "String"

\* the first byte above 1, if any: 256 if none
FirstBadBool_looks_at_one_byte(bytes) ==
    IF bytes # <<>> /\ Head(bytes) > 1 THEN Head(bytes) ELSE 256
RECURSIVE FirstBadBool_keeps_the_last(_)
FirstBadBool_keeps_the_last(bytes) ==
    IF bytes = <<>> THEN 256
    ELSE IF bytes[Len(bytes)] > 1 THEN bytes[Len(bytes)]
    ELSE FirstBadBool_keeps_the_last(SubSeq(bytes, 1, Len(bytes) - 1))
RECURSIVE FirstBadBool(_)
FirstBadBool(bytes) ==
    IF bytes = <<>> THEN 256
    ELSE IF Head(bytes) > 1 THEN Head(bytes) ELSE FirstBadBool(Tail(bytes))

\* read, then check_for_extra_bytes, then Ok(out): the part the readers share
ReadThenCheck(reader, endian, size, len) ==
    LET got == read_exact(reader, len * size)
        extra == check_for_extra_bytes(got.reader)
    IN IF ~got.ok THEN Err(got.err)
       ELSE IF ~extra.ok THEN extra
       ELSE Ok(DecodeAll(endian, got.bytes, size, len))

\* ReadableElement::read_to_end_exact_vec for the element type t
read_to_end_exact_vec(t, reader, type_desc, len) ==
    IF t \in {"i8", "u8"}
    THEN IF IsString(type_desc) /\ \E desc \in OneByteDescs(t) : DescIs(type_desc.v, desc)
         THEN ReadThenCheck(reader, "little", 1, len)
         ELSE Err(WrongDescriptor(type_desc))
    ELSE IF t = "bool"
    THEN IF IsString(type_desc) /\ DescIs(type_desc.v, <<"|", "b", "1">>)
         THEN LET got == read_exact(reader, len)
                  extra == check_for_extra_bytes(got.reader)
                  bad == FirstBadBool(got.bytes)
              IN IF ~got.ok THEN Err(got.err)
                 ELSE IF ~extra.ok THEN extra
                 ELSE IF bad # 256 THEN Err(ParseBoolError(bad))
                 ELSE Ok([i \in 1 .. len |-> got.bytes[i] = 1])
         ELSE Err(WrongDescriptor(type_desc))
    ELSE IF IsString(type_desc) /\ DescIs(type_desc.v, LittleDesc(t))
         THEN ReadThenCheck(reader, "little", SizeOf(t), len)
         ELSE IF IsString(type_desc) /\ DescIs(type_desc.v, BigDesc(t))
         THEN ReadThenCheck(reader, "big", SizeOf(t), len)
         ELSE Err(WrongDescriptor(type_desc))

\* Read::read_to_end: where it leaves the reader
read_to_end_reader(reader) ==
    IF reader.fault = "read_to_end" THEN reader
    ELSE [reader EXCEPT !.pos = Len(reader.data)]
\* where read_to_end_exact_vec leaves the reader: the arm that returns
\* WrongDescriptor makes no call of the reader; the others read the elements
\* and, if that succeeds, call check_for_extra_bytes, which reads to the end
reader_after(t, reader, type_desc, len) ==
    IF read_to_end_exact_vec(t, reader, type_desc, len).err.kind = "WrongDescriptor"
    THEN reader
    ELSE LET got == read_exact(reader, len * SizeOf(t))
         IN IF ~got.ok THEN got.reader ELSE read_to_end_reader(got.reader)

(***************************************************************************)
(* SpecRead: one call of an element reader on a payload.                   *)
(***************************************************************************)
\* the largest element count asked of a reader
MaxCount == 2
\* payloads: zeros, or the bytes 1, 2, 3, ...; of any length up to one byte
\* more than MaxCount elements of the widest type
PayloadKinds == {"zeros", "counting"}
Payload(kind, k) == [i \in 1 .. k |-> IF kind = "zeros" THEN 0 ELSE i % 256]
\* and, for the bool reader, every payload of the bytes 0, 1, 5 and 7 of up to
\* one byte more than MaxCount elements
BoolBytes == {0, 1, 5, 7}
BoolPayloads == UNION {[1 .. k -> BoolBytes] : k \in 0 .. MaxCount + 1}
Payloads == {Payload(kind, k) : kind \in PayloadKinds, k \in 0 .. MaxCount * SizeOf("u64") + 1}
                \cup BoolPayloads

\* descriptors: those written for every type on either target, the aliases,
\* a descriptor of the wrong case and one that is no string
RdDescs == {type_descriptor(t, e) : t \in ElemTypes, e \in {"little", "big"}}
              \cup {PyString(d) : d \in OneByteDescs("i8") \cup OneByteDescs("u8")}
              \cup {PyString(<<"<", "I", "2">>), PyInteger(2)}

InitRead ==
    /\ StreamUnused
    /\ fmt = Idle
    /\ rd \in [stage : {"call"}, T : ElemTypes, type_desc : RdDescs, len : 0 .. MaxCount,
               data : Payloads, fault : {"none", "read_exact", "read_to_end"},
               ret : {Ok(<<>>)}, pos : {0}]
    /\ npy = Idle
    /\ hread = Idle

\* a call of <T as ReadableElement>::read_to_end_exact_vec
read_elements ==
    /\ rd.stage = "call"
    /\ rd' = [rd EXCEPT !.stage = "returned",
                        !.ret = read_to_end_exact_vec(rd.T, Reader(rd.data, rd.fault),
                                                      rd.type_desc, rd.len),
                        !.pos = reader_after(rd.T, Reader(rd.data, rd.fault),
                                             rd.type_desc, rd.len).pos]
    /\ UNCHANGED <<streamVars, fmt, npy, hread>>

NextRead == read_elements

SpecRead == InitRead /\ [][NextRead]_vars

\* C9: a reader given the descriptor written for another type returns
\* WrongDescriptor with that descriptor and no elements, whatever the payload;
\* a reader takes exactly its type's two descriptors (and i1, b for i8, u1, B
\* for u8), and what it returns is len values of its own width.
C9_WrongDescriptor ==
    rd.stage = "returned" =>
        LET aliases == CASE rd.T = "i8" -> {<<"i", "1">>, <<"b">>}
                         [] rd.T = "u8" -> {<<"u", "1">>, <<"B">>}
                         [] OTHER -> {}
            own == {LittleDesc(rd.T), BigDesc(rd.T)} \cup aliases
        IN /\ \A t \in ElemTypes \ {rd.T} : \A e \in {"little", "big"} :
                 rd.type_desc = type_descriptor(t, e)
                    => rd.ret = Err(WrongDescriptor(rd.type_desc))
           /\ (rd.ret.err.kind # "WrongDescriptor")
                 <=> (rd.type_desc.kind = "String" /\ rd.type_desc.v \in own)
           /\ rd.ret.ok => /\ Len(rd.ret.val) = rd.len
                           /\ Len(rd.data) = rd.len * SizeOf(rd.T)

\* C9 witness: the i16 reader was given the descriptor of i32 and a payload
\* of 4 bytes, and returned WrongDescriptor("<i4")
C9_Witness ==
    /\ rd.stage = "returned"
    /\ rd.T = "i16" /\ rd.type_desc = PyString(<<"<", "i", "4">>)
    /\ rd.len = 2 /\ rd.data = <<1, 2, 3, 4>> /\ rd.fault = "none"
    /\ rd.ret = Err(WrongDescriptor(PyString(<<"<", "i", "4">>)))

\* C10: when the descriptor is the reader's own and the payload ends before
\* len elements are filled, the reader returns ReadDataError::MissingData.
C10_TruncatedIsMissingData ==
    (/\ rd.stage = "returned"
     /\ rd.type_desc = type_descriptor(rd.T, "little")
     /\ rd.fault = "none"
     /\ Len(rd.data) < rd.len * SizeOf(rd.T))
        => rd.ret = Err(MissingData)

\* C11 as stated: when the descriptor is the reader's own and the payload is
\* len * width + k bytes, the reader of every element type returns the len
\* decoded elements if k = 0 and ExtraBytes(k) if k >= 1.
C11_ExactOrExtraBytes_EveryType ==
    (/\ rd.stage = "returned"
     /\ rd.type_desc.kind = "String"
     /\ rd.type_desc.v \in {LittleDesc(rd.T), BigDesc(rd.T)}
     /\ rd.fault = "none"
     /\ Len(rd.data) >= rd.len * SizeOf(rd.T))
        => LET k == Len(rd.data) - rd.len * SizeOf(rd.T)
           IN IF k = 0 THEN rd.ret.ok /\ Len(rd.ret.val) = rd.len
              ELSE rd.ret = Err(ExtraBytes(k))

\* C11: when the descriptor is the reader's own and the payload is
\* len * width + k bytes, the reader returns ExtraBytes(k) if k >= 1; if
\* k = 0 it returns the len elements, each decoded from its own width bytes in
\* the byte order the descriptor names, except that the bool reader returns
\* ParseBoolError when a byte of the payload is above 1; no reader returns
\* elements unless the payload is exactly len * width bytes.
C11_ExactOrExtraBytes ==
    /\ (rd.stage = "returned" /\ rd.ret.ok) => Len(rd.data) = rd.len * SizeOf(rd.T)
    /\ (/\ rd.stage = "returned"
        /\ rd.type_desc.kind = "String"
        /\ rd.type_desc.v \in {LittleDesc(rd.T), BigDesc(rd.T)}
        /\ rd.fault = "none"
        /\ Len(rd.data) >= rd.len * SizeOf(rd.T))
           => LET size == SizeOf(rd.T)
                  k == Len(rd.data) - rd.len * size
                  little == rd.type_desc.v = LittleDesc(rd.T)
                  \* the byte of the payload that is byte j, counted from the
                  \* most significant, of element i
                  byte(i, j) == rd.data[(i - 1) * size + (IF little THEN size + 1 - j ELSE j)]
              IN IF k >= 1 THEN rd.ret = Err(ExtraBytes(k))
                 ELSE IF rd.T = "bool"
                 THEN IF \E i \in 1 .. rd.len : rd.data[i] > 1
                      THEN ~rd.ret.ok /\ rd.ret.err.kind = "ParseBoolError"
                      ELSE rd.ret = Ok([i \in 1 .. rd.len |-> rd.data[i] = 1])
                 ELSE rd.ret = Ok([i \in 1 .. rd.len |-> [j \in 1 .. size |-> byte(i, j)]])

\* C11 witness: the i16 reader was given its descriptor, a count of 2 and a
\* payload of 5 bytes, and returned ExtraBytes(1)
C11_Witness ==
    /\ rd.stage = "returned"
    /\ rd.T = "i16" /\ rd.type_desc = PyString(<<"<", "i", "2">>)
    /\ rd.len = 2 /\ rd.data = <<1, 2, 3, 4, 5>> /\ rd.fault = "none"
    /\ rd.ret = Err(ExtraBytes(1))

\* C12: the bool reader given "|b1" and exactly len bytes returns, for a
\* payload of bytes 0 and 1 only, the values FALSE for 0 and TRUE for 1 in the
\* order of the bytes; if a byte at any position is above 1 it returns
\* ParseBoolError with a byte of the payload that is above 1, and no values.
C12_BoolBytes ==
    (/\ rd.stage = "returned"
     /\ rd.T = "bool" /\ rd.type_desc = PyString(<<"|", "b", "1">>)
     /\ rd.fault = "none"
     /\ Len(rd.data) = rd.len)
        => IF \A i \in 1 .. rd.len : rd.data[i] \in {0, 1}
           THEN /\ rd.ret.ok
                /\ Len(rd.ret.val) = rd.len
                /\ \A i \in 1 .. rd.len : rd.ret.val[i] = (rd.data[i] = 1)
           ELSE /\ ~rd.ret.ok
                /\ rd.ret.err.kind = "ParseBoolError"
                /\ \E i \in 1 .. rd.len : rd.data[i] > 1 /\ rd.ret.err.byte = rd.data[i]
                /\ rd.ret = Err(rd.ret.err)

\* C12 witness: the bool reader was given 2 bytes, a valid 1 and then 5, and
\* returned ParseBoolError(5) and nothing else
C12_Witness ==
    /\ rd.stage = "returned"
    /\ rd.T = "bool" /\ rd.type_desc = PyString(<<"|", "b", "1">>)
    /\ rd.len = 2 /\ rd.data = <<1, 5>> /\ rd.fault = "none"
    /\ rd.ret = Err(ParseBoolError(5))

\* C22: the checks of a reader come in the order descriptor, filling len
\* elements, bytes left over and, for bool, the scan for bytes above 1, and
\* the first that fails decides what is returned: a descriptor that is not
\* the reader's gives WrongDescriptor and leaves the reader where it was,
\* whatever the payload; a payload too short, or a read that fails, gives an
\* I/O error; a payload with bytes left over gives ExtraBytes, for bool also
\* when a byte is above 1; and a bool payload of exactly len bytes with bytes
\* above 1 gives ParseBoolError with the first of them.
C22_ReaderCheckOrder ==
    rd.stage = "returned" =>
        LET need == rd.len * SizeOf(rd.T)
            have == Len(rd.data)
            aliases == CASE rd.T = "i8" -> {<<"i", "1">>, <<"b">>}
                         [] rd.T = "u8" -> {<<"u", "1">>, <<"B">>}
                         [] OTHER -> {}
            own == IF rd.T = "bool" THEN {<<"|", "b", "1">>}
                   ELSE {LittleDesc(rd.T), BigDesc(rd.T)} \cup aliases
            illegal == {i \in 1 .. need : rd.data[i] > 1}
            first == CHOOSE i \in illegal : \A j \in illegal : i <= j
        IN IF ~(rd.type_desc.kind = "String" /\ rd.type_desc.v \in own)
           THEN rd.ret = Err(WrongDescriptor(rd.type_desc)) /\ rd.pos = 0
           ELSE IF rd.fault = "read_exact" \/ have < need
           THEN ~rd.ret.ok /\ rd.ret.err.kind = "Io"
           ELSE IF rd.fault = "read_to_end"
           THEN ~rd.ret.ok /\ rd.ret.err.kind = "Io" /\ rd.pos = need
           ELSE IF have > need
           THEN rd.ret = Err(ExtraBytes(have - need)) /\ rd.pos = have
           ELSE IF rd.T = "bool" /\ illegal # {}
           THEN rd.ret = Err(ParseBoolError(rd.data[first])) /\ rd.pos = have
           ELSE rd.ret.ok /\ rd.pos = have

\* C22 witness: the bool reader was asked for 2 elements of a payload of the
\* bytes 5, 7 and 1, and returned ExtraBytes(1), having read to the end
C22_Witness ==
    /\ rd.stage = "returned"
    /\ rd.T = "bool" /\ rd.type_desc = PyString(<<"|", "b", "1">>)
    /\ rd.len = 2 /\ rd.data = <<5, 7, 1>> /\ rd.fault = "none"
    /\ rd.ret = Err(ExtraBytes(1))
    /\ rd.pos = 3

(***************************************************************************)
(* py_literal's parser (header_str.parse(), header.rs:243) for the values  *)
(* a header is made of: strings in single quotes with the escapes of a     *)
(* backslash and a quote, True and False, decimal integers of up to        *)
(* MaxDigits digits, tuples and dicts; blanks may surround every token.    *)
(***************************************************************************)
MaxDigits == 9
EndOfText == 256
At(b, i) == IF i >= 1 /\ i <= Len(b) THEN b[i] ELSE EndOfText
IsWs(x) == x \in {32, 9, 12}
IsDigit(x) == x >= 48 /\ x <= 57
\* the first position from i on that holds no blank
SkipWs(b, i) == CHOOSE j \in i .. Len(b) + 1 :
                    /\ ~IsWs(At(b, j))
                    /\ \A k \in i .. j - 1 : IsWs(At(b, k))
\* the first position from i on that holds no digit
SkipDigits(b, i) == CHOOSE j \in i .. Len(b) + 1 :
                        /\ ~IsDigit(At(b, j))
                        /\ \A k \in i .. j - 1 : IsDigit(At(b, k))

NoParse == [ok |-> FALSE, val |-> PyBoolean(FALSE), next |-> 0]
Parsed(val, next) == [ok |-> TRUE, val |-> val, next |-> next]

RECURSIVE DecimalValue(_)
DecimalValue(digits) ==
    IF digits = <<>> THEN 0
    ELSE 10 * DecimalValue(SubSeq(digits, 1, Len(digits) - 1)) + (digits[Len(digits)] - 48)

\* the text of a string from position j, after the opening quote: the
\* characters up to the next quote, backslash or byte that no string holds
\* are taken as they are, an escape is a backslash before a backslash or a
\* quote
RECURSIVE ScanString(_, _, _)
ScanString(b, j, acc) ==
    LET plain(k) == IsPrintable(At(b, k)) /\ At(b, k) \notin {39, 92}
        stop == CHOOSE k \in j .. Len(b) + 1 :
                    ~plain(k) /\ \A m \in j .. k - 1 : plain(m)
        text == acc \o Text(SubSeq(b, j, stop - 1))
    IN IF At(b, stop) = 39 THEN Parsed(PyString(text), stop + 1)
       ELSE IF At(b, stop) = 92 /\ At(b, stop + 1) \in {92, 39}
       THEN ScanString(b, stop + 2, text \o <<Chr(At(b, stop + 1))>>)
       ELSE NoParse

ParseInteger(b, i) ==
    LET neg == At(b, i) = 45
        from == IF neg THEN i + 1 ELSE i
        to == SkipDigits(b, from)
        mag == DecimalValue(SubSeq(b, from, to - 1))
    IN IF to = from \/ to - from > MaxDigits THEN NoParse
       ELSE Parsed(PyInteger(IF neg THEN 0 - mag ELSE mag), to)

IsWord(b, i, word) ==
    /\ i + Len(word) - 1 <= Len(b)
    /\ SubSeq(b, i, i + Len(word) - 1) = Bytes(word)

RECURSIVE ParseValue(_, _)
RECURSIVE ParseTupleItems(_, _, _)
RECURSIVE ParseDictItems(_, _, _)
\* the items of a tuple from position i, which holds no blank
ParseTupleItems(b, i, acc) ==
    IF At(b, i) = 41 THEN Parsed(PyTuple(acc), i + 1)
    ELSE LET item == ParseValue(b, i)
             j == SkipWs(b, item.next)
         IN IF ~item.ok THEN NoParse
            ELSE IF At(b, j) = 44
            THEN ParseTupleItems(b, SkipWs(b, j + 1), acc \o <<item.val>>)
            ELSE IF At(b, j) = 41 /\ acc # <<>>
            THEN Parsed(PyTuple(acc \o <<item.val>>), j + 1)
            ELSE NoParse
\* the entries of a dict from position i, which holds no blank
ParseDictItems(b, i, acc) ==
    IF At(b, i) = 125 THEN Parsed(PyDict(acc), i + 1)
    ELSE LET key == ParseValue(b, i)
             colon == SkipWs(b, key.next)
             value == ParseValue(b, SkipWs(b, colon + 1))
             j == SkipWs(b, value.next)
         IN IF ~key.ok \/ At(b, colon) # 58 THEN NoParse
            ELSE IF ~value.ok THEN NoParse
            ELSE IF At(b, j) = 44
            THEN ParseDictItems(b, SkipWs(b, j + 1), acc \o << <<key.val, value.val>> >>)
            ELSE IF At(b, j) = 125
            THEN Parsed(PyDict(acc \o << <<key.val, value.val>> >>), j + 1)
            ELSE NoParse
\* the value at position i, which holds no blank
ParseValue(b, i) ==
    LET x == At(b, i)
    IN IF x = 39 THEN ScanString(b, i + 1, <<>>)
       ELSE IF IsWord(b, i, <<"T", "r", "u", "e">>) THEN Parsed(PyBoolean(TRUE), i + 4)
       ELSE IF IsWord(b, i, <<"F", "a", "l", "s", "e">>) THEN Parsed(PyBoolean(FALSE), i + 5)
       ELSE IF IsDigit(x) \/ x = 45 THEN ParseInteger(b, i)
       ELSE IF x = 40 THEN ParseTupleItems(b, SkipWs(b, i + 1), <<>>)
       ELSE IF x = 123 THEN ParseDictItems(b, SkipWs(b, i + 1), <<>>)
       ELSE NoParse

\* str::parse::<PyValue>(): the whole text is one value
ParsePyValue(b) ==
    LET v == ParseValue(b, SkipWs(b, 1))
    IN IF v.ok /\ SkipWs(b, v.next) = Len(b) + 1 THEN v ELSE NoParse

(***************************************************************************)
(* Reading a header (header.rs): from_py_value and from_reader.            *)
(***************************************************************************)
\* ParseHeaderError
HeaderErr(kind, info) == [kind |-> kind, info |-> info]
None == [some |-> FALSE, v |-> 0]
Some(v) == [some |-> TRUE, v |-> v]

\* parse_shape: a tuple of integers that fit usize
parse_shape_of_any_integers(value) ==
    IF value.kind = "Tuple" /\ \A i \in 1 .. Len(value.v) : value.v[i].kind = "Integer"
    THEN Some([i \in 1 .. Len(value.v) |-> value.v[i].v])
    ELSE None
parse_shape(value) ==
    IF value.kind = "Tuple"
         /\ \A i \in 1 .. Len(value.v) : value.v[i].kind = "Integer" /\ value.v[i].v >= 0
    THEN Some([i \in 1 .. Len(value.v) |-> value.v[i].v])
    ELSE None

\* the name MissingKey carries for a missing shape
MissingShapeName == <<"s", "h", "a", "p", "e", "r">>

\* the loop of from_py_value over the entries, and the match after it
RECURSIVE ScanEntries(_, _, _, _)
ScanEntries(dict, descr, order, shape) ==
    IF dict = <<>>
    THEN IF descr.some /\ order.some /\ shape.some
         THEN Ok([type_descriptor |-> descr.v, fortran_order |-> order.v, shape |-> shape.v])
         ELSE IF ~descr.some THEN Err(HeaderErr("MissingKey", KeyDescr))
         ELSE IF ~order.some THEN Err(HeaderErr("MissingKey", KeyFortranOrder))
         ELSE Err(HeaderErr("MissingKey", MissingShapeName))
    ELSE LET key == Head(dict)[1]
             value == Head(dict)[2]
         IN IF key.kind = "String" /\ key.v = KeyDescr
            THEN ScanEntries(Tail(dict), Some(value), order, shape)
            ELSE IF key.kind = "String" /\ key.v = KeyFortranOrder
            THEN IF value.kind = "Boolean"
                 THEN ScanEntries(Tail(dict), descr, Some(value.v), shape)
                 ELSE Err(HeaderErr("IllegalValue", <<KeyFortranOrder, value>>))
            ELSE IF key.kind = "String" /\ key.v = KeyShape
            THEN IF parse_shape(value).some
                 THEN ScanEntries(Tail(dict), descr, order, parse_shape(value))
                 ELSE Err(HeaderErr("IllegalValue", <<KeyShape, value>>))
            ELSE Err(HeaderErr("UnknownKey", key))

\* Header::from_py_value
from_py_value(value) ==
    IF value.kind = "Dict" THEN ScanEntries(value.v, None, None, None)
    ELSE Err(HeaderErr("MetaNotDict", value))

\* Version::from_bytes
from_bytes(bytes) ==
    CASE bytes = <<1, 0>> -> Ok("V1_0")
      [] bytes = <<2, 0>> -> Ok("V2_0")
      [] bytes = <<3, 0>> -> Ok("V3_0")
      [] OTHER -> Err(HeaderErr("Version", bytes))

\* read_exact of a usize count from bytes in memory, which are few
read_exact_usize(reader, n) ==
    IF IsSmall(n) THEN read_exact(reader, N(n))
    ELSE read_exact(reader, Remaining(reader) + 1)

\* Version::read_header_len: read_u16 / read_u32 in little-endian, as a usize
read_header_len(version, reader) ==
    LET nbytes == header_len_num_bytes(version)
        got == read_exact(reader, nbytes)
    IN [got EXCEPT !.bytes = IF got.ok THEN got.bytes \o [i \in 1 .. UsizeBytes - nbytes |-> 0]
                             ELSE <<>>]

is_ascii(bytes) == \A i \in 1 .. Len(bytes) : bytes[i] < 128

\* std::str::from_utf8(bytes).is_ok(), from position i on: every character is
\* a well-formed sequence of 1 to 4 bytes (no overlong form, no surrogate,
\* nothing above U+10FFFF)
RECURSIVE from_utf8(_, _)
from_utf8(bytes, i) ==
    LET x == bytes[i]
        In(k, lo, hi) == i + k <= Len(bytes) /\ bytes[i + k] >= lo /\ bytes[i + k] <= hi
        cont(k) == In(k, 128, 191)
    IN IF i > Len(bytes) THEN TRUE
       ELSE IF x < 128 THEN from_utf8(bytes, i + 1)
       ELSE IF x >= 194 /\ x <= 223 THEN cont(1) /\ from_utf8(bytes, i + 2)
       ELSE IF x = 224 THEN In(1, 160, 191) /\ cont(2) /\ from_utf8(bytes, i + 3)
       ELSE IF x = 237 THEN In(1, 128, 159) /\ cont(2) /\ from_utf8(bytes, i + 3)
       ELSE IF x >= 225 /\ x <= 239 THEN cont(1) /\ cont(2) /\ from_utf8(bytes, i + 3)
       ELSE IF x = 240
       THEN In(1, 144, 191) /\ cont(2) /\ cont(3) /\ from_utf8(bytes, i + 4)
       ELSE IF x >= 241 /\ x <= 243
       THEN cont(1) /\ cont(2) /\ cont(3) /\ from_utf8(bytes, i + 4)
       ELSE IF x = 244
       THEN In(1, 128, 143) /\ cont(2) /\ cont(3) /\ from_utf8(bytes, i + 4)
       ELSE FALSE

\* a result of from_reader: [ok, val, err, reader]
HeaderFail(e, reader) == [ok |-> FALSE, val |-> 0, err |-> e, reader |-> reader]

\* Header::from_reader, from its last step back to its first.
\* Ok(Header::from_py_value(arr_format)?)
from_reader_header(header, reader) ==
    IF ~header.ok THEN HeaderFail(header.err, reader)
    ELSE [ok |-> TRUE, val |-> header.val, err |-> NoErr, reader |-> reader]
\* header_str.parse().map_err(ParseHeaderError::from)?
from_reader_value(arr_format, reader) ==
    IF ~arr_format.ok THEN HeaderFail(HeaderErr("DictParse", 0), reader)
    ELSE from_reader_header(from_py_value(arr_format.val), reader)
\* the text of the record: ASCII for versions 1.0 and 2.0, UTF-8 for 3.0
from_reader_text(version, without_newline, reader) ==
    IF version = "V3_0"
    THEN IF from_utf8(without_newline, 1)
         THEN from_reader_value(ParsePyValue(without_newline), reader)
         ELSE HeaderFail(HeaderErr("Utf8Parse", 0), reader)
    ELSE IF is_ascii(without_newline)
         THEN from_reader_value(ParsePyValue(without_newline), reader)
         ELSE HeaderFail(HeaderErr("NonAscii", 0), reader)
\* buf.split_last(): the newline
from_reader_buf_any_last_byte(version, buf) ==
    IF ~buf.ok THEN HeaderFail(buf.err, buf.reader)
    ELSE IF buf.bytes = <<>> THEN HeaderFail(HeaderErr("MissingNewline", 0), buf.reader)
    ELSE from_reader_text(version, SubSeq(buf.bytes, 1, Len(buf.bytes) - 1), buf.reader)
from_reader_buf(version, buf) ==
    IF ~buf.ok THEN HeaderFail(buf.err, buf.reader)
    ELSE IF buf.bytes = <<>> \/ buf.bytes[Len(buf.bytes)] # Newline
    THEN HeaderFail(HeaderErr("MissingNewline", 0), buf.reader)
    ELSE from_reader_text(version, SubSeq(buf.bytes, 1, Len(buf.bytes) - 1), buf.reader)
\* let mut buf = vec![0; header_len]; reader.read_exact(&mut buf)?
from_reader_len(version, header_len) ==
    IF ~header_len.ok THEN HeaderFail(header_len.err, header_len.reader)
    ELSE from_reader_buf(version, read_exact_usize(header_len.reader, header_len.bytes))
\* version.read_header_len(&mut reader)?
from_reader_version(version, reader) ==
    IF ~version.ok THEN HeaderFail(version.err, reader)
    ELSE from_reader_len(version.val, read_header_len(version.val, reader))
\* Version::from_bytes(&buf)?
from_reader_vbytes(vbytes) ==
    IF ~vbytes.ok THEN HeaderFail(vbytes.err, vbytes.reader)
    ELSE from_reader_version(from_bytes(vbytes.bytes), vbytes.reader)
\* if buf != MAGIC_STRING
from_reader_magic(magic) ==
    IF ~magic.ok THEN HeaderFail(magic.err, magic.reader)
    ELSE IF magic.bytes # MAGIC_STRING
    THEN HeaderFail(HeaderErr("MagicString", 0), magic.reader)
    ELSE from_reader_vbytes(read_exact(magic.reader, VERSION_NUM_BYTES))
\* Header::from_reader
from_reader(reader) == from_reader_magic(read_exact(reader, Len(MAGIC_STRING)))

(***************************************************************************)
(* ndarray's arrays as write_npy and read_npy use them: an array is its    *)
(* dim, its strides and the memory it views, data[m + 1] being the element *)
(* in slot m.                                                              *)
(***************************************************************************)
\* the largest axis length of the arrays written
MaxNpyDim == 2

RECURSIVE Prod(_)
Prod(dims) == IF dims = <<>> THEN 1 ELSE Head(dims) * Prod(Tail(dims))
HasZero(dim) == \E i \in 1 .. Len(dim) : dim[i] = 0

\* Dimension::default_strides: row-major, all zero for an empty array
default_strides(dim) ==
    [i \in 1 .. Len(dim) |-> IF HasZero(dim) THEN 0 ELSE Prod(SubSeq(dim, i + 1, Len(dim)))]
\* Dimension::fortran_strides: column-major, all zero for an empty array
fortran_strides(dim) ==
    [i \in 1 .. Len(dim) |-> IF HasZero(dim) THEN 0 ELSE Prod(SubSeq(dim, 1, i - 1))]

\* ArrayBase::is_standard_layout
is_standard_layout(arr) ==
    \/ HasZero(arr.dim)
    \/ \A i \in 1 .. Len(arr.dim) :
          arr.dim[i] # 1 => arr.strides[i] = default_strides(arr.dim)[i]
\* ArrayBase::reversed_axes
reversed_axes_keeps_the_axes(arr) == arr
reversed_axes(arr) == [arr EXCEPT !.dim = Reverse(arr.dim), !.strides = Reverse(arr.strides)]
\* ArrayBase::shape
shape(arr) == arr.dim
\* ArrayBase::len
ArrayLen(arr) == Prod(arr.dim)

\* the indices of an array of this dim
Indices(dim) ==
    {idx \in [1 .. Len(dim) -> 0 .. MaxNpyDim] : \A i \in 1 .. Len(dim) : idx[i] < dim[i]}
RECURSIVE Dot(_, _)
Dot(idx, strides) ==
    IF idx = <<>> THEN 0 ELSE Head(idx) * Head(strides) + Dot(Tail(idx), Tail(strides))
\* arr[idx]
Elem(arr, idx) == arr.data[Dot(idx, arr.strides) + 1]
\* the index of the k-th element in logical (row-major) order, k from 0
LogicalIndex(dim, k) ==
    [i \in 1 .. Len(dim) |-> (k \div Prod(SubSeq(dim, i + 1, Len(dim)))) % dim[i]]
\* ArrayBase::iter: the elements in logical order
iter(arr) == [k \in 1 .. ArrayLen(arr) |-> Elem(arr, LogicalIndex(arr.dim, k - 1))]
\* ArrayBase::as_slice_memory_order of a contiguous array
as_slice_memory_order(arr) == SubSeq(arr.data, 1, ArrayLen(arr))
\* ArrayBase::from_shape_vec(shape.set_f(fortran_order), data)
from_shape_vec(dim, fortran_order, data) ==
    [dim |-> dim,
     strides |-> IF fortran_order THEN fortran_strides(dim) ELSE default_strides(dim),
     data |-> data]

(***************************************************************************)
(* write_npy and read_npy (mod.rs).                                        *)
(***************************************************************************)
\* what write_npy hands to the writer when no write fails:
\* [ok, err, header, data], header and data being bytes
write_npy(arr, t, target_endian) ==
    LET hdr(fortran_order) == to_bytes([type_descriptor |-> type_descriptor(t, target_endian),
                                        fortran_order |-> fortran_order,
                                        shape |-> shape(arr)])
        done(h, slice) ==
            IF ~h.ok THEN [ok |-> FALSE, err |-> h.err, header |-> <<>>, data |-> <<>>]
            ELSE [ok |-> TRUE, err |-> "None", header |-> Expand(h.bytes),
                  data |-> SliceBytes(t, target_endian, slice)]
    IN IF is_standard_layout(arr) THEN done(hdr(FALSE), as_slice_memory_order(arr))
       ELSE IF is_standard_layout(reversed_axes(arr))
       THEN done(hdr(TRUE), as_slice_memory_order(arr))
       ELSE done(hdr(FALSE), iter(arr))

\* ReadNpyError
ReadHeader(e) == [kind |-> "ReadHeader", cause |-> e]
ReadData(e) == [kind |-> "ReadData", cause |-> e]
LengthOverflow == [kind |-> "LengthOverflow"]
WrongNdim(expected, actual) == [kind |-> "WrongNdim", expected |-> expected, actual |-> actual]

\* the columns of the product of two usize values, and their carries
Column(a, b, k) ==
    LET terms == [i \in 1 .. Len(a) |->
                     IF k + 1 - i >= 1 /\ k + 1 - i <= Len(b) THEN a[i] * b[k + 1 - i] ELSE 0]
    IN terms[1] + terms[2] + terms[3] + terms[4] + terms[5] + terms[6] + terms[7] + terms[8]
RECURSIVE MulLimbs(_, _, _, _)
MulLimbs(a, b, k, carry) ==
    IF k > 2 * Len(a) THEN <<>>
    ELSE LET t == Column(a, b, k) + carry
         IN <<t % 256>> \o MulLimbs(a, b, k + 1, t \div 256)
\* usize::checked_mul: [some, value]
checked_mul(a, b) ==
    LET r == MulLimbs(a, b, 1, 0)
    IN [some |-> \A i \in Len(a) + 1 .. Len(r) : r[i] = 0, value |-> SubSeq(r, 1, Len(a))]

\* Dimension::size_checked: fold(Some(1), |s, &a| s.and_then(|s_| s_.checked_mul(a)))
RECURSIVE size_checked_from(_, _)
size_checked_from(dim, s) ==
    IF dim = <<>> \/ ~s.some THEN s
    ELSE size_checked_from(Tail(dim), checked_mul(s.value, U(Head(dim))))
size_checked(dim) == size_checked_from(dim, [some |-> TRUE, value |-> U(1)])

\* len <= std::isize::MAX as usize
FitsIsize(len) == len[UsizeBytes] < 128

\* from_shape_vec's check that the product of the axis lengths that are not
\* zero fits isize; unwrap() panics when it does not
RECURSIVE NonZeroAxes(_)
NonZeroAxes(dim) ==
    IF dim = <<>> THEN <<>>
    ELSE (IF Head(dim) = 0 THEN <<>> ELSE <<Head(dim)>>) \o NonZeroAxes(Tail(dim))
size_of_shape_checked(dim) ==
    LET size == size_checked(NonZeroAxes(dim))
    IN size.some /\ FitsIsize(size.value)

\* D::NDIM of the dimension types a caller reads into: IxDyn, and Ix0 to Ix3
DimTypes == {None} \cup {Some(n) : n \in 0 .. 3}

\* read_npy into an array of the element type t and a dimension type with this
\* NDIM, from its last step back to its first.
\* ArrayBase::from_shape_vec(..).unwrap().into_dimensionality()
read_npy_data(header, data, NDIM) ==
    IF ~data.ok THEN Err(ReadData(data.err))
    ELSE IF ~size_of_shape_checked(header.shape) THEN Err(Panic)
    ELSE IF NDIM.some /\ NDIM.v # Len(header.shape)
    THEN Err(WrongNdim(NDIM, Len(header.shape)))
    ELSE Ok(from_shape_vec(header.shape, header.fortran_order, data.val))
\* the match on shape.size_checked(), then A::read_to_end_exact_vec; a len too
\* large for the memory of the model ends in the failed allocation
read_npy_len(header, reader, len, t, NDIM) ==
    IF ~len.some \/ ~FitsIsize(len.value) THEN Err(LengthOverflow)
    ELSE IF ~IsSmall(len.value) THEN Err(Panic)
    ELSE read_npy_data(header,
                       read_to_end_exact_vec(t, reader, header.type_descriptor, N(len.value)),
                       NDIM)
\* Header::from_reader(&mut reader)?
read_npy_header(header, t, NDIM) ==
    IF ~header.ok THEN Err(ReadHeader(header.err))
    ELSE read_npy_len(header.val, header.reader, size_checked(header.val.shape), t, NDIM)
\* ReadNpyExt::read_npy
read_npy(reader, t, NDIM) == read_npy_header(from_reader(reader), t, NDIM)

(***************************************************************************)
(* SpecNpy: an array is written with write_npy and what was written is     *)
(* read with read_npy.                                                     *)
(***************************************************************************)
NpyDims == 0 .. MaxNpyDim
NpyShapes == {<<>>} \cup {<<d1>> : d1 \in NpyDims}
                \cup {<<d1, d2>> : d1 \in NpyDims, d2 \in NpyDims}
                \cup {<<d1, d2, d3>> : d1 \in NpyDims, d2 \in NpyDims, d3 \in NpyDims}

\* the strides of a layout: row-major, column-major, every second slot of a
\* row-major array, and a row-major array with its last two axes swapped
Layouts == {"C", "F", "stepped", "swapped"}
SwapLastTwo(x) ==
    IF Len(x) < 2 THEN x
    ELSE SubSeq(x, 1, Len(x) - 2) \o <<x[Len(x)], x[Len(x) - 1]>>
StridesOf(dim, layout) ==
    CASE layout = "C" -> default_strides(dim)
      [] layout = "F" -> fortran_strides(dim)
      [] layout = "stepped" -> [i \in 1 .. Len(dim) |-> 2 * default_strides(dim)[i]]
      [] layout = "swapped" -> SwapLastTwo(default_strides(SwapLastTwo(dim)))

\* the element in slot m: for a bool whether m is odd, for the other types
\* the bytes 200, 0, ..., m + 1 of a value (m + 1 alone for one byte)
SlotValue(t, m) ==
    IF t = "bool" THEN m % 2 = 1
    ELSE [i \in 1 .. SizeOf(t) |-> IF i = SizeOf(t) THEN m + 1 ELSE IF i = 1 THEN 200 ELSE 0]

\* the array of a dim and a layout over memory filled with SlotValue
ArrayOf(t, dim, layout) ==
    LET strides == StridesOf(dim, layout)
        slots == IF HasZero(dim) THEN 0
                 ELSE 1 + Dot([i \in 1 .. Len(dim) |-> dim[i] - 1], strides)
    IN [dim |-> dim, strides |-> strides, data |-> [m \in 1 .. slots |-> SlotValue(t, m - 1)]]

NpyArrays(t) == {ArrayOf(t, dim, layout) : dim \in NpyShapes, layout \in Layouts}

InitNpy ==
    /\ StreamUnused
    /\ fmt = Idle
    /\ rd = Idle
    /\ hread = Idle
    /\ \E t \in ElemTypes, e \in {"little", "big"} : \E arr \in NpyArrays(t) :
          npy = [stage |-> "array", T |-> t, target_endian |-> e, arr |-> arr,
                 wfault |-> "none", out |-> <<>>, wret |-> Ok(0),
                 NDIM |-> None, rfault |-> "none", rret |-> Ok(0)]

\* what a call that hands w to the writer leaves: [wfault, out, wret]; a write
\* of the header or of the elements may fail, having written none or all but
\* one of its bytes
WriteOutcomes(w) ==
    {[wfault |-> "none", out |-> w.header \o w.data,
      wret |-> IF w.ok THEN Ok(0) ELSE Err(w.err)]}
      \cup {[wfault |-> "header", out |-> SubSeq(w.header, 1, k), wret |-> Err(IoErr)] :
               k \in IF w.ok THEN {0, Len(w.header) - 1} ELSE {}}
      \cup {[wfault |-> "data", out |-> w.header \o SubSeq(w.data, 1, k),
             wret |-> Err(IoErr)] :
               k \in IF w.ok /\ w.data # <<>> THEN {0, Len(w.data) - 1} ELSE {}}

\* a call of write_npy on the array
write_npy_call ==
    /\ npy.stage = "array"
    /\ \E outcome \in WriteOutcomes(write_npy(npy.arr, npy.T, npy.target_endian)) :
          npy' = [npy EXCEPT !.stage = "written", !.wfault = outcome.wfault,
                             !.out = outcome.out, !.wret = outcome.wret]
    /\ UNCHANGED <<streamVars, fmt, rd, hread>>

\* a call of read_npy on what write_npy wrote, into any dimension type; the
\* reader may fail on its first read
read_npy_call ==
    /\ npy.stage = "written"
    /\ npy.wret.ok
    /\ \E NDIM \in DimTypes, fault \in {"none", "read_exact"} :
          npy' = [npy EXCEPT !.stage = "read", !.NDIM = NDIM, !.rfault = fault,
                             !.rret = read_npy(Reader(npy.out, fault), npy.T, NDIM)]
    /\ UNCHANGED <<streamVars, fmt, rd, hread>>

NextNpy == write_npy_call \/ read_npy_call

SpecNpy == InitNpy /\ [][NextNpy]_vars

\* C6: for each of the 11 element types, every shape (rank 0 and axes of
\* length 0 included) and every layout, write_npy succeeds unless a write
\* fails, and read_npy of the bytes it wrote, into IxDyn or the dimension type
\* of the array's rank, succeeds unless a read fails and returns an array of
\* the same shape, the same length and the same element at every index.
C6_RoundTrip ==
    /\ (npy.stage = "written" /\ npy.wfault = "none") => npy.wret.ok
    /\ (/\ npy.stage = "read"
        /\ npy.rfault = "none"
        /\ npy.NDIM.some => npy.NDIM.v = Len(npy.arr.dim))
          => /\ npy.rret.ok
             /\ shape(npy.rret.val) = shape(npy.arr)
             /\ ArrayLen(npy.rret.val) = ArrayLen(npy.arr)
             /\ \A idx \in Indices(npy.arr.dim) :
                   Elem(npy.rret.val, idx) = Elem(npy.arr, idx)

\* C6 witness: a column-major 2 x 2 array of i32 was written on a
\* little-endian target and read back whole, with column-major strides
C6_Witness ==
    /\ npy.stage = "read" /\ npy.rfault = "none" /\ npy.NDIM = Some(2)
    /\ npy.T = "i32" /\ npy.target_endian = "little"
    /\ npy.arr.dim = <<2, 2>> /\ npy.arr.strides = <<1, 2>>
    /\ npy.rret.ok
    /\ npy.rret.val.strides = <<1, 2>>
    /\ Elem(npy.rret.val, <<1, 0>>) = <<200, 0, 0, 2>>

\* C19: what write_npy leaves in the writer is one header followed by the
\* bytes of the elements, and nothing else; a failed write leaves a proper
\* prefix of that, so no element byte precedes the end of the header. The
\* header's order flag is true exactly when the elements do not fill the
\* memory in row-major order of their indices but do in column-major order;
\* the elements follow in memory order when they fill the memory in either
\* order, and in row-major order of their indices otherwise.
C19_HeaderThenLayoutOrder ==
    npy.stage = "written" =>
        LET arr == npy.arr
            n == ArrayLen(arr)
            slot(idx) == Dot(idx, arr.strides)
            row_major == \A k \in 0 .. n - 1 : slot(LogicalIndex(arr.dim, k)) = k
            col_major ==
                \A k \in 0 .. n - 1 : slot(Reverse(LogicalIndex(Reverse(arr.dim), k))) = k
            in_memory == [k \in 1 .. n |-> arr.data[k]]
            logical == [k \in 1 .. n |-> arr.data[slot(LogicalIndex(arr.dim, k - 1)) + 1]]
            head(flag) ==
                Expand(to_bytes([type_descriptor |-> type_descriptor(npy.T, npy.target_endian),
                                 fortran_order |-> flag,
                                 shape |-> arr.dim]).bytes)
            left(whole) ==
                IF npy.wfault = "none" THEN npy.out = whole
                ELSE Len(npy.out) < Len(whole) /\ npy.out = SubSeq(whole, 1, Len(npy.out))
            written(flag, elems) ==
                left(head(flag) \o SliceBytes(npy.T, npy.target_endian, elems))
        IN IF row_major THEN written(FALSE, in_memory)
           ELSE IF col_major THEN written(TRUE, in_memory)
           ELSE written(FALSE, logical)

\* C19 witness: a 2 x 2 array of i16 that views every second slot of its
\* memory was written on a little-endian target: the flag is false and the
\* elements of slots 0, 2, 4 and 6 follow the header in that order
C19_Witness ==
    /\ npy.stage = "written" /\ npy.wfault = "none"
    /\ npy.T = "i16" /\ npy.target_endian = "little"
    /\ npy.arr.dim = <<2, 2>> /\ npy.arr.strides = <<4, 2>>
    /\ ~from_reader(Reader(npy.out, "none")).val.fortran_order
    /\ SubSeq(npy.out, Len(npy.out) - 7, Len(npy.out)) = <<1, 200, 3, 200, 5, 200, 7, 200>>

(***************************************************************************)
(* SpecKeys: one call of Header::from_py_value on a value.                 *)
(***************************************************************************)
\* the largest number of entries of a record
MaxEntries == 4

\* the entries a record is made of: legal and illegal values of the three
\* keys, a key that is none of them and a key that is no string
KeyEntries ==
    {<<PyString(KeyDescr), PyString(LittleDesc("i16"))>>,
     <<PyString(KeyDescr), PyInteger(3)>>,
     <<PyString(KeyFortranOrder), PyBoolean(FALSE)>>,
     <<PyString(KeyFortranOrder), PyBoolean(TRUE)>>,
     <<PyString(KeyFortranOrder), PyInteger(1)>>,
     <<PyString(KeyShape), PyTuple(<<PyInteger(2), PyInteger(3)>>)>>,
     <<PyString(KeyShape), PyTuple(<<>>)>>,
     <<PyString(KeyShape), PyTuple(<<PyInteger(2), PyInteger(-1)>>)>>,
     <<PyString(KeyShape), PyInteger(3)>>,
     <<PyString(KeyShape), PyTuple(<<PyBoolean(TRUE)>>)>>,
     <<PyString(MissingShapeName), PyTuple(<<PyInteger(2)>>)>>,
     <<PyInteger(1), PyInteger(0)>>}

\* the values given to from_py_value: records of up to MaxEntries entries in
\* any order, repeated keys included, and two values that are no record
KeyValues ==
    {PyDict(dict) : dict \in UNION {[1 .. k -> KeyEntries] : k \in 0 .. MaxEntries}}
        \cup {PyTuple(<<>>), PyString(KeyShape)}

InitKeys ==
    /\ StreamUnused
    /\ fmt = Idle
    /\ rd = Idle
    /\ npy = Idle
    /\ hread \in [stage : {"value"}, value : KeyValues, ret : {Ok(0)}]

\* a call of Header::from_py_value
from_py_value_call ==
    /\ hread.stage = "value"
    /\ hread' = [hread EXCEPT !.stage = "returned", !.ret = from_py_value(hread.value)]
    /\ UNCHANGED <<streamVars, fmt, rd, npy>>

SpecKeys == InitKeys /\ [][from_py_value_call]_vars

\* C13: from_py_value accepts a value exactly when it is a record whose keys
\* are descr, fortran_order and shape, all three present, fortran_order a
\* boolean and shape a tuple of non-negative integers, and the header it
\* returns holds the record's own values.  Otherwise: a record with an entry
\* of another key fails with UnknownKey carrying the key, one with an illegal
\* fortran_order or shape with IllegalValue carrying key and value (the first
\* such entry of the record deciding between the two), and a record whose
\* entries are all legal but which lacks a key with MissingKey.
C13_KeyValidation ==
    hread.stage = "returned" =>
        LET entries == hread.value.v
            r == hread.ret
            Known == {KeyDescr, KeyFortranOrder, KeyShape}
            IsKey(i, k) == entries[i][1].kind = "String" /\ entries[i][1].v = k
            LegalShape(val) ==
                val.kind = "Tuple"
                  /\ \A j \in 1 .. Len(val.v) : val.v[j].kind = "Integer" /\ val.v[j].v >= 0
            unknown(i) == \A k \in Known : ~IsKey(i, k)
            illegal(i) == \/ IsKey(i, KeyFortranOrder) /\ entries[i][2].kind # "Boolean"
                          \/ IsKey(i, KeyShape) /\ ~LegalShape(entries[i][2])
            defective == {i \in 1 .. Len(entries) : unknown(i) \/ illegal(i)}
            missing == {k \in Known : \A i \in 1 .. Len(entries) : ~IsKey(i, k)}
            Last(k) == LET at == {i \in 1 .. Len(entries) : IsKey(i, k)}
                       IN entries[CHOOSE i \in at : \A j \in at : j <= i][2]
        IN IF hread.value.kind # "Dict"
           THEN r = Err(HeaderErr("MetaNotDict", hread.value))
           ELSE /\ r.ok <=> (defective = {} /\ missing = {})
                /\ r.ok => /\ r.val.type_descriptor = Last(KeyDescr)
                           /\ r.val.fortran_order = Last(KeyFortranOrder).v
                           /\ Len(r.val.shape) = Len(Last(KeyShape).v)
                           /\ \A j \in 1 .. Len(r.val.shape) :
                                 r.val.shape[j] = Last(KeyShape).v[j].v
                /\ ~r.ok =>
                     /\ r.err.kind \in {"MissingKey", "UnknownKey", "IllegalValue"}
                     /\ r.err.kind = "MissingKey" <=> defective = {}
                     /\ defective # {} =>
                          LET first == CHOOSE i \in defective : \A j \in defective : i <= j
                          IN IF unknown(first)
                             THEN r.err = HeaderErr("UnknownKey", entries[first][1])
                             ELSE r.err = HeaderErr("IllegalValue",
                                                    <<entries[first][1].v, entries[first][2]>>)

\* C13 witness: the record {'descr': '<i2', 'fortran_order': False,
\* 'shape': (2, -1)} was refused with IllegalValue("shape", (2, -1))
C13_Witness ==
    /\ hread.stage = "returned"
    /\ hread.value = PyDict(<<<<PyString(KeyDescr), PyString(LittleDesc("i16"))>>,
                              <<PyString(KeyFortranOrder), PyBoolean(FALSE)>>,
                              <<PyString(KeyShape), PyTuple(<<PyInteger(2), PyInteger(-1)>>)>>>>)
    /\ hread.ret = Err(HeaderErr("IllegalValue",
                                 <<KeyShape, PyTuple(<<PyInteger(2), PyInteger(-1)>>)>>))

\* C23: for a record whose entries all have one of the three keys and a
\* legal value and which lacks at least one of the keys, from_py_value
\* returns MissingKey with the name of the first key, in the order descr,
\* fortran_order, shape, that the record lacks.
C23_MissingKeyNamesAbsentKey ==
    (hread.stage = "returned" /\ hread.value.kind = "Dict") =>
        LET entries == hread.value.v
            Known == <<KeyDescr, KeyFortranOrder, KeyShape>>
            IsKey(i, k) == entries[i][1].kind = "String" /\ entries[i][1].v = k
            legal(i) ==
                \/ IsKey(i, KeyDescr)
                \/ IsKey(i, KeyFortranOrder) /\ entries[i][2].kind = "Boolean"
                \/ IsKey(i, KeyShape) /\ parse_shape(entries[i][2]).some
            absent == {n \in 1 .. 3 : \A i \in 1 .. Len(entries) : ~IsKey(i, Known[n])}
            first == CHOOSE n \in absent : \A m \in absent : n <= m
        IN ((\A i \in 1 .. Len(entries) : legal(i)) /\ absent # {})
              => hread.ret = Err(HeaderErr("MissingKey", Known[first]))

(***************************************************************************)
(* SpecHeader: one call of Header::from_reader on the bytes of a file.     *)
(***************************************************************************)
\* the header the well-formed inputs hold
HdrHeader == [type_descriptor |-> PyString(LittleDesc("i16")),
              fortran_order |-> FALSE, shape |-> <<2, 3>>]
HdrRecord == WriteAscii(to_py_value(HdrHeader))

\* what follows the length field: a well-formed record with padding and
\* newline, and blocks with one or two defects (no newline, nothing at all, a
\* two-byte UTF-8 character, a byte that no UTF-8 text holds, a text that is
\* no literal, a record without shape, with a fourth key, a tuple)
HdrBlocks ==
    {HdrRecord \o <<Space, Space, Newline>>,
     HdrRecord \o <<Space, Space>>,
     <<>>,
     <<Newline>>,
     HdrRecord \o <<195, 169, Newline>>,
     HdrRecord \o <<255, Newline>>,
     HdrRecord \o <<255>>,
     <<123, Newline>>,
     <<123, 255, Newline>>,
     WriteAscii(PyDict(SubSeq(to_py_value(HdrHeader).v, 1, 2))) \o <<Newline>>,
     WriteAscii(PyDict(to_py_value(HdrHeader).v
                         \o << <<PyString(<<"e", "x", "t", "r", "a">>), PyInteger(0)>> >>))
        \o <<Newline>>,
     WriteAscii(PyTuple(<<PyInteger(2)>>)) \o <<Newline>>}

\* a file: magic string, version bytes, the little-endian length field (2
\* bytes for major version 1, else 4) declaring the length of the block plus
\* delta, the block, the payload
HdrFile(magic, version, block, delta, payload) ==
    LET declared == IF Len(block) + delta < 0 THEN 0 ELSE Len(block) + delta
        nbytes == IF version[1] = 1 THEN 2 ELSE 4
    IN magic \o version \o [i \in 1 .. nbytes |-> (declared \div (256 ^ (i - 1))) % 256]
             \o block \o payload

\* the files given to from_reader: the magic string or its last byte changed,
\* the three known versions and two unknown ones, a length field that is
\* exact, one short or two long, no payload or three bytes of it; each file
\* whole and cut after 3, 7, 9 and 11 bytes
HdrFiles ==
    LET whole == {HdrFile(magic, version, block, delta, payload) :
                     magic \in {MAGIC_STRING, [MAGIC_STRING EXCEPT ![6] = 88]},
                     version \in {<<1, 0>>, <<2, 0>>, <<3, 0>>, <<1, 1>>, <<4, 0>>},
                     block \in HdrBlocks,
                     delta \in {0 - 1, 0, 2},
                     payload \in {<<>>, <<7, 7, 7>>}}
    IN whole \cup UNION {{SubSeq(file_bytes, 1, cut) :
                               cut \in {at \in {3, 7, 9, 11} : at <= Len(file_bytes)}} :
                            file_bytes \in whole}

InitHeader ==
    /\ StreamUnused
    /\ fmt = Idle
    /\ rd = Idle
    /\ npy = Idle
    /\ hread \in [stage : {"bytes"}, data : HdrFiles, fault : {"none", "read_exact"},
                  ret : {HeaderFail(NoErr, Reader(<<>>, "none"))}]

\* a call of Header::from_reader
from_reader_call ==
    /\ hread.stage = "bytes"
    /\ hread' = [hread EXCEPT !.stage = "returned",
                              !.ret = from_reader(Reader(hread.data, hread.fault))]
    /\ UNCHANGED <<streamVars, fmt, rd, npy>>

SpecHeader == InitHeader /\ [][from_reader_call]_vars

\* C14: from_reader applies its checks in this order, the first that fails
\* deciding the result: the 6 bytes of the magic string (MagicString, the
\* reader left after byte 6); the 2 version bytes, (1,0), (2,0) or (3,0)
\* (otherwise Version with both bytes); the little-endian length field of 2
\* bytes for version 1 and 4 bytes for versions 2 and 3; that many bytes, the
\* last of which is a newline (MissingNewline, also for a length of 0); the
\* text before the newline, ASCII for versions 1 and 2 (NonAscii), UTF-8 for
\* version 3 (Utf8Parse); the literal (DictParse); the keys (from_py_value).
\* A file that ends inside one of the reads is an I/O error at that read.
C14_CheckOrder ==
    (hread.stage = "returned" /\ hread.fault = "none") =>
        LET b == hread.data
            r == hread.ret
            eof == ~r.ok /\ r.err = ReadIo("UnexpectedEof")
            fails(kind) == ~r.ok /\ r.err = HeaderErr(kind, 0)
            w == IF b[7] = 1 THEN 2 ELSE 4
            declared == b[9] + 256 * b[10]
                          + (IF w = 4 THEN 65536 * b[11] + 16777216 * b[12] ELSE 0)
            block == SubSeq(b, 8 + w + 1, 8 + w + declared)
            text == SubSeq(block, 1, Len(block) - 1)
            value == ParsePyValue(text)
            keys == from_py_value(value.val)
        IN IF Len(b) < 6 THEN eof
           ELSE IF SubSeq(b, 1, 6) # MAGIC_STRING
           THEN fails("MagicString") /\ r.reader.pos = 6
           ELSE IF Len(b) < 8 THEN eof
           ELSE IF <<b[7], b[8]>> \notin {<<1, 0>>, <<2, 0>>, <<3, 0>>}
           THEN ~r.ok /\ r.err = HeaderErr("Version", <<b[7], b[8]>>)
           ELSE IF Len(b) < 8 + w THEN eof
           ELSE IF Len(b) < 8 + w + declared THEN eof
           ELSE IF declared = 0 \/ block[declared] # Newline THEN fails("MissingNewline")
           ELSE IF b[7] \in {1, 2} /\ \E i \in 1 .. Len(text) : text[i] > 127
           THEN fails("NonAscii")
           ELSE IF b[7] = 3 /\ ~from_utf8(text, 1) THEN fails("Utf8Parse")
           ELSE IF ~value.ok THEN fails("DictParse")
           ELSE /\ r.ok = keys.ok
                /\ r.err = keys.err
                /\ r.val = keys.val
                /\ r.reader.pos = 8 + w + declared

\* C14 witness: a file with a wrong magic string, an unknown version and no
\* newline was refused with MagicString, 6 of its bytes consumed
C14_Witness ==
    /\ hread.stage = "returned" /\ hread.fault = "none"
    /\ hread.data = HdrFile([MAGIC_STRING EXCEPT ![6] = 88], <<4, 0>>,
                            HdrRecord \o <<Space, Space>>, 0, <<7, 7, 7>>)
    /\ hread.ret = HeaderFail(HeaderErr("MagicString", 0),
                              [Reader(hread.data, "none") EXCEPT !.pos = 6])

(***************************************************************************)
(* SpecTrip: Header::to_bytes, then Header::from_reader on a file that     *)
(* starts with the bytes it returned.                                      *)
(***************************************************************************)
\* how many letters are added to a descriptor to lengthen a short record
MaxTripStretch == 2

\* the headers written: those of SpecFormat with a descriptor lengthened by 0
\* to MaxTripStretch letters, and HdrHeader with a descriptor so long that its
\* record is the longest version 1.0 holds (65525 bytes) or one byte longer
TripHeaders ==
    (FmtHeaders \X {U(d) : d \in 0 .. MaxTripStretch})
        \cup {<<HdrHeader, U(65525 - Len(HdrRecord) + d)>> : d \in {0, 1}}

InitTrip ==
    /\ StreamUnused
    /\ fmt = Idle
    /\ rd = Idle
    /\ npy = Idle
    /\ \E hs \in TripHeaders, payload \in {<<>>, <<Newline, 7>>} :
          hread = [stage |-> "header", h |-> hs[1], stretch |-> hs[2], payload |-> payload,
                   out |-> [ok |-> FALSE, bytes |-> <<>>, err |-> "None"],
                   ret |-> [ok |-> FALSE, val |-> 0, err |-> NoErr, pos |-> 0]]

\* a call of Header::to_bytes
to_bytes_call ==
    /\ hread.stage = "header"
    /\ hread' = [hread EXCEPT !.stage = "formatted",
                              !.out = to_bytes_of(arr_format_of(hread.h, hread.stretch))]
    /\ UNCHANGED <<streamVars, fmt, rd, npy>>

\* a call of Header::from_reader on the formatted bytes followed by the
\* payload; of the reader the position is kept
from_reader_of_written ==
    /\ hread.stage = "formatted"
    /\ hread.out.ok
    /\ LET r == from_reader(Reader(Expand(hread.out.bytes) \o hread.payload, "none"))
       IN hread' = [hread EXCEPT !.stage = "read",
                                 !.ret = [ok |-> r.ok, val |-> r.val, err |-> r.err,
                                          pos |-> r.reader.pos]]
    /\ UNCHANGED <<streamVars, fmt, rd, npy>>

SpecTrip == InitTrip /\ [][to_bytes_call \/ from_reader_of_written]_vars

\* C17: in the bytes to_bytes returns, the little-endian length field holds
\* the number of bytes that follow it, the newline included, which is the
\* total length less a prefix of 10 bytes for version 1.0 and 12 bytes for
\* version 2.0; and from_reader, given a file that starts with those bytes,
\* consumes them and nothing more and returns a header with the descriptor,
\* the order flag and the shape that were written.
C17_LengthFieldRoundTrip ==
    (hread.stage \in {"formatted", "read"} /\ hread.out.ok) =>
        LET out == hread.out.bytes
            start == Expand(RunsTake(out, U(12)))
            prefix == IF start[7] = 1 THEN 10 ELSE 12
            field == SubSeq(start, 9, prefix) \o [i \in 1 .. 16 - prefix |-> 0]
            written == [type_descriptor |->
                            PyString(hread.h.type_descriptor.v
                                       \o [i \in 1 .. N(hread.stretch) |-> "a"]),
                        fortran_order |-> hread.h.fortran_order,
                        shape |-> hread.h.shape]
        IN /\ start[7] \in {1, 2}
           /\ field = Sub(RunsLen(out), U(prefix))
           /\ hread.stage = "read" =>
                 /\ hread.ret.ok
                 /\ hread.ret.pos = N(RunsLen(out))
                 /\ hread.ret.val = written

\* C17 witness: a record of 65526 bytes was written as version 2.0, 65600
\* bytes in all with 65588 in the length field, and read back from a file
\* with a payload, the reader left at the payload
C17_Witness ==
    /\ hread.stage = "read" /\ hread.ret.ok
    /\ RunsLen(arr_format_of(hread.h, hread.stretch)) = U(65526)
    /\ Expand(RunsTake(hread.out.bytes, U(12))) = MAGIC_STRING \o <<2, 0>> \o <<52, 0, 1, 0>>
    /\ hread.payload = <<Newline, 7>>
    /\ hread.ret.pos = 65600
    /\ Len(hread.ret.val.type_descriptor.v) = 3 + N(hread.stretch)

(***************************************************************************)
(* More claims about the streaming writer, checked under Spec.             *)
(***************************************************************************)

\* C18: whatever builder calls were made, the shape of the builder, and so of
\* the header build writes and of the total it computes, is the argument of
\* the last shape setter called (the empty shape if none was), never an
\* earlier argument followed by it; the order flag is that of the last of
\* f() and c(), row-major if neither was called; a shape setter leaves the
\* flag and f() and c() leave the shape as they were; and before build no
\* file exists.
C18_LastSetterWins ==
    /\ pc \in {"Building", "Open", "Ended"} =>
          /\ builder.shape = asked.dim
          /\ builder.fortran_order = (asked.order = "f")
          /\ file.headers \in {<<>>, <<[builder EXCEPT !.shape = asked.dim]>>}
          /\ pc = "Open" => tot_elems(stream) = FoldShape(asked.dim, 1).value
    /\ pc = "Building" => file = NoFile
    /\ call.op \in {"for_dim", "for_arr1", "for_arr2", "for_arr3", "f", "c"} =>
          pc = "Building"

\* C18 witness: for_arr3 and f() were called, then a setter with (2, 3), and
\* build wrote a column-major header of shape (2, 3) for 6 elements
C18_Witness ==
    /\ pc = "Open" /\ call.op = "build"
    /\ asked = [dim |-> <<2, 3>>, order |-> "f"]
    /\ file.headers = <<[type_descriptor |-> PyString(LittleDesc("i16")),
                         fortran_order |-> TRUE, shape |-> <<2, 3>>]>>
    /\ tot_elems(stream) = 6

\* C16: after a successful build, tot_elems() is the exact product of the
\* dimensions of the configured shape (0 if one of them is 0, 1 for the empty
\* shape), never that product reduced modulo the word; the written counter
\* is 0 and the stream is not closed.
C16_TotalIsExactProduct ==
    (call.op = "build" /\ ret.ok) =>
        /\ tot_elems(stream) = Prod(builder.shape)
        /\ stream.written_elems = 0
        /\ ~stream.closed

\* C21: close ends the stream whatever it returns: the stream is closed, no
\* write_slice is ever applied to a closed stream, and nothing is printed
\* when the closed stream is dropped.  A stream that ends, by close or by
\* drop, with fewer elements than its total is reported once: by the
\* TooFewElements error of close or by the warning of drop, never by both
\* and never by neither; a stream that ends complete is reported by none.
C21_CloseEndsStream ==
    /\ call.op = "close" => pc = "Ended" /\ stream.closed /\ stderr = <<>>
    /\ stream.closed => call.op = "close"
    /\ call.op = "write_slice" => ~stream.closed
    /\ (pc = "Ended" /\ call.op \in {"close", "drop"}) =>
          LET short == stream.written_elems < stream.tot_elems
              by_error == /\ call.op = "close"
                          /\ ret = Err(TooFewElements(stream.tot_elems, stream.written_elems))
              by_warning == stderr = <<[expect |-> stream.tot_elems,
                                        received |-> stream.written_elems]>>
          IN /\ Len(stderr) <= 1
             /\ stderr # <<>> => by_warning
             /\ short => (by_error # by_warning)
             /\ ~short => ~by_error /\ ~by_warning

\* C21 witness: close on a 6-element stream holding 2 elements returned
\* TooFewElements(6, 2), the stream is closed and nothing was printed
C21_Witness ==
    /\ pc = "Ended"
    /\ call.op = "close"
    /\ stream = [tot_elems |-> 6, written_elems |-> 2, closed |-> TRUE]
    /\ ret = Err(TooFewElements(6, 2))
    /\ stderr = <<>>

(***************************************************************************)
(* SpecChunks: a caller has set a shape and an order, builds the stream    *)
(* and writes a sequence of as many elements as the shape holds, split     *)
(* into chunks as it likes; the destination does not fail.  The caller's   *)
(* buffer holds the elements as the target keeps them in memory.           *)
(***************************************************************************)
\* the longest sequence of elements written
MaxSeq == 4
\* two elements of two bytes
SeqElems == {<<1, 2>>, <<3, 4>>}

InitChunks ==
    /\ pc = "Building"
    /\ \E dim \in {d \in Shapes : FoldShape(d, 1).value <= MaxSeq /\ ~FoldShape(d, 1).overflow},
          order \in {"c", "f"} :
          /\ asked = [dim |-> dim, order |-> order]
          /\ builder = [SetShape(BuilderNew("i16", "little"), dim)
                           EXCEPT !.fortran_order = (order = "f")]
          /\ \E elems \in [1 .. FoldShape(dim, 1).value -> SeqElems] :
                env = [T |-> "i16", target_endian |-> "little", elems |-> elems,
                       memory |-> SliceBytes("i16", "little", elems)]
    /\ stream = NoStream
    /\ file = NoFile
    /\ call = NoCall
    /\ ret = Ok(0)
    /\ stderr = <<>>
    /\ accepted = 0
    /\ io_faults = MaxIoFaults
    /\ fmt = Idle /\ rd = Idle /\ npy = Idle /\ hread = Idle

SpecChunks == InitChunks /\ [][build \/ write_slice \/ close]_vars

\* C20: however the elements were split into write_slice calls, the file of
\* a built stream holds one header, that of the element type, the order and
\* the shape asked for, and after it the bytes of the elements written so
\* far, element after element in the order of the sequence; once the stream
\* is finished these are the bytes of the whole sequence, which one
\* write_slice of the whole sequence leaves too.
C20_ChunkingIndependent ==
    pc # "Building" =>
        LET size == SizeOf(env.T)
            done == stream.written_elems
        IN /\ file.headers = <<[type_descriptor |-> type_descriptor(env.T, env.target_endian),
                                fortran_order |-> (asked.order = "f"),
                                shape |-> asked.dim]>>
           /\ done <= Len(env.elems)
           /\ Len(file.data) = done * size
           /\ \A k \in 1 .. done :
                 SubSeq(file.data, (k - 1) * size + 1, k * size)
                    = ElemBytes(env.T, env.target_endian, env.elems[k])
           /\ finished(stream) =>
                 file.data = SliceBytes(env.T, env.target_endian, env.elems)
           /\ (call.op = "close" /\ ret.ok) => finished(stream)

\* C20 witness: the four elements of a column-major 2 x 2 stream were
\* written in more than one chunk, the last of one element, and the file
\* holds their bytes in the order of the sequence
C20_Witness ==
    /\ pc = "Open"
    /\ call = [op |-> "write_slice", len |-> 1]
    /\ ret.ok
    /\ asked = [dim |-> <<2, 2>>, order |-> "f"]
    /\ env.elems = <<<<1, 2>>, <<3, 4>>, <<3, 4>>, <<1, 2>>>>
    /\ finished(stream)
    /\ file.data = <<2, 1, 4, 3, 4, 3, 2, 1>>

====
